---- MODULE Spec2Model ----
(***************************************************************************)
(* A model of .evergreen/mongodl.py and .evergreen/mongosh_dl.py: the      *)
(* version order, the retry policy, the download cache, the catalog import *)
(* and the download run.  Each part has its own specification over the     *)
(* variables it uses; the variables of the other parts stay idle.          *)
(***************************************************************************)
EXTENDS Integers, Sequences, FiniteSets, TLC

VARIABLES
    \* version order: the two strings handed to the collation and its results
    left, right, cmp,
    \* DownloadRetrier: its fields, the delays it slept and what retry() returned
    retries, attempt, slept, returned,
    \* one run of main(): its arguments, its position, and what it has done
    tool, rversion, component, rhel, no_download, run_retries,
    pc, stdout_urls, fetches, artifact_fetches, extracts, blocks, outcomes,
    raised_from, lookups, sha_known,
    \* download cache: the remote files, table mdl_http_downloads, the files
    \* under <cache>/files, the download_file call in progress or just ended,
    \* and what is remembered of the call before it
    remote, validators, files, call, prev, stable, kept,
    \* catalog: the committed tables, the open transaction, the import in
    \* progress, the manifest of the last committed import, and the last query
    db, tx, imp, generation, query, rows,
    \* _test_pattern: the path and the pattern it is called with, its result
    tpath, tpattern, matched,
    \* extraction: the archive, --only, --strip-path-components, the tool and
    \* its --empty-is-error, the tree under the destination, the run of main
    \* in progress and the runs that ended
    ar, only, strip, xtool, empty_is_error, tree, xrun, history,
    \* resolution of a published build: the catalog, the request, its progress
    rcat, req, res,
    \* the download loop of _dl_component: the cache entry of the resolved
    \* URL with its remote file, and the loop with its last two passes
    store, dlc,
    \* the cache database file with table mdl_http_downloads and the
    \* catalog, and the remote files and cached files of its URLs
    sqldb, world

vversion == <<left, right, cmp>>
vretrier == <<retries, attempt, slept, returned>>
vargs == <<tool, rversion, component, rhel, no_download, run_retries>>
vrun == <<tool, rversion, component, rhel, no_download, run_retries,
          pc, stdout_urls, fetches, artifact_fetches, extracts, blocks, outcomes,
          raised_from, lookups, sha_known>>
vcache == <<remote, validators, files, call, prev, stable, kept>>
vcatalog == <<db, tx, imp, generation, query, rows>>
vpattern == <<tpath, tpattern, matched>>
vextract == <<ar, only, strip, xtool, empty_is_error, tree, xrun, history>>
vresolve == <<rcat, req, res>>
vloop == <<store, dlc>>
vstore == <<sqldb, world>>
vars == <<left, right, cmp, retries, attempt, slept, returned,
          tool, rversion, component, rhel, no_download, run_retries,
          pc, stdout_urls, fetches, artifact_fetches, extracts, blocks, outcomes,
          raised_from, lookups, sha_known,
          remote, validators, files, call, prev, stable, kept,
          db, tx, imp, generation, query, rows,
          tpath, tpattern, matched,
          ar, only, strip, xtool, empty_is_error, tree, xrun, history,
          rcat, req, res,
          store, dlc,
          sqldb, world>>

\* The variables an action of one part leaves alone.
others_version == <<vretrier, vrun, vcache, vcatalog, vpattern, vextract, vresolve, vloop, vstore>>
others_retrier == <<vversion, vrun, vcache, vcatalog, vpattern, vextract, vresolve, vloop, vstore>>
others_run == <<vversion, vcache, vcatalog, vpattern, vextract, vresolve, vloop, vstore>>
others_cache == <<vversion, vretrier, vrun, vcatalog, vpattern, vextract, vresolve, vloop, vstore>>
others_catalog == <<vversion, vretrier, vrun, vcache, vpattern, vextract, vresolve, vloop, vstore>>
others_pattern == <<vversion, vretrier, vrun, vcache, vcatalog, vextract, vresolve, vloop, vstore>>
others_extract == <<vversion, vretrier, vrun, vcache, vcatalog, vpattern, vresolve, vloop, vstore>>
others_resolve == <<vversion, vretrier, vrun, vcache, vcatalog, vpattern, vextract, vloop, vstore>>
others_loop == <<vversion, vrun, vcache, vcatalog, vpattern, vextract, vresolve, vstore>>
others_store == <<vversion, vretrier, vrun, vcache, vcatalog, vpattern, vextract, vresolve, vloop>>

(***************************************************************************)
(* Version strings.  A string is a sequence of tokens: a run of digits     *)
(* (its integer value in n), a dot, a dash, or a run of lower-case letters *)
(* (the letters in w).                                                     *)
(***************************************************************************)
Num(n) == [k |-> "num", n |-> n, w |-> ""]
Dot == [k |-> "dot", n |-> 0, w |-> ""]
Dash == [k |-> "dash", n |-> 0, w |-> ""]
Word(s) == [k |-> "word", n |-> 0, w |-> s]

\* The largest number used in a component of a generated version string.
MaxVerNum == 1

STABLE_MAX_RC == 9999

VerNums == 0..MaxVerNum
StageTags == {"alpha", "beta", "rc"}

MajorMinorStr(a, b) == <<Num(a), Dot, Num(b)>>
PatchStr(a, b, c) == <<Num(a), Dot, Num(b), Dot, Num(c)>>
TaggedStr(a, b, c, t, n) == PatchStr(a, b, c) \o <<Dash, Word(t), Num(n)>>

\* The valid version strings: MAJOR.MINOR, MAJOR.MINOR.PATCH and
\* MAJOR.MINOR.PATCH-<stage><n>.
GeneratedVersions ==
    {MajorMinorStr(a, b) : a \in VerNums, b \in VerNums}
    \cup {PatchStr(x[1], x[2], x[3]) : x \in VerNums \X VerNums \X VerNums}
    \cup {TaggedStr(x[1], x[2], x[3], x[4], x[5]) :
            x \in VerNums \X VerNums \X VerNums \X StageTags \X VerNums}

\* The version strings the documentation of the order names.
V_5_0_3_rc2 == TaggedStr(5, 0, 3, "rc", 2)
V_5_0_3 == PatchStr(5, 0, 3)
V_5_0_4_alpha0 == TaggedStr(5, 0, 4, "alpha", 0)
V_4_4 == MajorMinorStr(4, 4)
V_4_4_0 == PatchStr(4, 4, 0)
V_6_0_6 == PatchStr(6, 0, 6)

ExampleVersions == {V_5_0_3_rc2, V_5_0_3, V_5_0_4_alpha0, V_4_4, V_4_4_0, V_6_0_6}

ValidVersions == GeneratedVersions \cup ExampleVersions

\* MAJOR_VERSION_RE.match: (\d+)\.(\d+)$ anchored at both ends.
MAJOR_VERSION_RE(s) ==
    /\ Len(s) = 3
    /\ s[1].k = "num" /\ s[2].k = "dot" /\ s[3].k = "num"

\* VERSION_RE.match: (\d+)\.(\d+)\.(\d+) at the start of the string; what
\* follows is not constrained.
VERSION_RE(s) ==
    /\ Len(s) >= 5
    /\ s[1].k = "num" /\ s[2].k = "dot" /\ s[3].k = "num"
    /\ s[4].k = "dot" /\ s[5].k = "num"

\* The optional group (?:-([a-z]+)(\d+))? of VERSION_RE took part in the match.
VERSION_RE_tagged(s) ==
    /\ Len(s) >= 8
    /\ s[6].k = "dash" /\ s[7].k = "word" /\ s[8].k = "num"

TagRanks == [alpha |-> 1, beta |-> 2, rc |-> 3]

\* The value returned for a string version_tup raises on.
ParseError == <<>>

version_tup(s) ==
    IF MAJOR_VERSION_RE(s)
    THEN <<s[1].n, s[3].n, 0, 0, 0>>
    ELSE IF ~VERSION_RE(s)
    THEN ParseError
    ELSE IF ~VERSION_RE_tagged(s)
    THEN <<s[1].n, s[3].n, s[5].n, STABLE_MAX_RC, 0>>
    ELSE IF s[7].w \notin DOMAIN TagRanks
    THEN ParseError
    ELSE <<s[1].n, s[3].n, s[5].n, TagRanks[s[7].w], s[8].n>>

\* Python's tuple comparison lhs < rhs on two 5-tuples.
TupLessFirst(lhs, rhs) == lhs[1] < rhs[1]

TupLess(lhs, rhs) ==
    \E i \in 1..5 :
        /\ lhs[i] < rhs[i]
        /\ \A j \in 1..(i - 1) : lhs[j] = rhs[j]

collate_mdb_version(l, r) ==
    LET lhs == version_tup(l)
        rhs == version_tup(r)
    IN  IF TupLess(lhs, rhs) THEN -1
        ELSE IF TupLess(rhs, lhs) THEN 1
        ELSE 0

mdb_version_not_rc(version) == version_tup(version)[5] = STABLE_MAX_RC

mdb_version_rapid(version) == version_tup(version)[2] > 0

(***************************************************************************)
(* The version order applied to two valid version strings, in both         *)
(* directions.                                                             *)
(***************************************************************************)
IdleVersion == left = <<>> /\ right = <<>> /\ cmp = <<>>

IdleRetrier == retries = 0 /\ attempt = 0 /\ slept = <<>> /\ returned = <<>>

IdleRun ==
    /\ tool = "" /\ rversion = "" /\ component = "" /\ rhel = FALSE
    /\ no_download = FALSE /\ run_retries = 0
    /\ pc = "" /\ stdout_urls = 0 /\ fetches = 0 /\ artifact_fetches = 0
    /\ extracts = 0 /\ blocks = 0 /\ outcomes = <<>>
    /\ raised_from = 0 /\ lookups = 0 /\ sha_known = FALSE

IdleCache ==
    /\ remote = <<>> /\ validators = <<>> /\ files = <<>>
    /\ call = <<>> /\ prev = <<>> /\ stable = TRUE /\ kept = TRUE

IdleCatalog ==
    /\ db = <<>> /\ tx = <<>> /\ imp = <<>>
    /\ generation = <<>> /\ query = <<>> /\ rows = <<>>

IdlePattern == tpath = <<>> /\ tpattern = <<>> /\ matched = <<>>

IdleExtract ==
    /\ ar = <<>> /\ only = <<>> /\ strip = 0 /\ xtool = "" /\ empty_is_error = FALSE
    /\ tree = <<>> /\ xrun = <<>> /\ history = <<>>

IdleResolve == rcat = <<>> /\ req = <<>> /\ res = <<>>
IdleLoop == store = <<>> /\ dlc = <<>>
IdleStore == sqldb = <<>> /\ world = <<>>

InitVersion ==
    /\ left \in ValidVersions
    /\ right \in ValidVersions
    /\ cmp = <<>>
    /\ IdleRetrier
    /\ IdleRun
    /\ IdleCache
    /\ IdleCatalog
    /\ IdlePattern
    /\ IdleExtract
    /\ IdleResolve
    /\ IdleLoop
    /\ IdleStore

Collate ==
    /\ cmp = <<>>
    /\ cmp' = <<collate_mdb_version(left, right), collate_mdb_version(right, left),
                collate_mdb_version(left, left)>>
    /\ UNCHANGED <<left, right>>
    /\ UNCHANGED others_version

NextVersion == Collate

SpecVersion == InitVersion /\ [][NextVersion]_vars

\* The stage of a valid version string and the order of the stages.
StageOf(s) == IF Len(s) = 8 THEN s[7].w ELSE "stable"
StageBefore ==
    {<<"alpha", "beta">>, <<"alpha", "rc">>, <<"alpha", "stable">>,
     <<"beta", "rc">>, <<"beta", "stable">>, <<"rc", "stable">>}
SamePatch(a, b) == Len(a) >= 5 /\ Len(b) >= 5 /\ SubSeq(a, 1, 5) = SubSeq(b, 1, 5)
NextPatch(a, b) ==
    /\ Len(a) >= 5 /\ Len(b) >= 5
    /\ SubSeq(a, 1, 4) = SubSeq(b, 1, 4)
    /\ b[5].n = a[5].n + 1

\* C8: on valid version strings the collation is a total order of the parsed
\* tuples: collate(a,b) = -collate(b,a), collate(a,a) = 0, and it is transitive;
\* with equal MAJOR.MINOR.PATCH alpha < beta < rc < untagged, and an untagged
\* version is below every tagged version of the next patch, as in
\* "5.0.3-rc2" < "5.0.3" < "5.0.4-alpha0".
C8_TotalOrder ==
    cmp # <<>> =>
        /\ cmp[1] = -cmp[2]
        /\ cmp[3] = 0
        /\ (left = right => cmp[1] = 0)
        /\ \A c \in ValidVersions :
              (cmp[1] < 0 /\ collate_mdb_version(right, c) < 0)
                  => collate_mdb_version(left, c) < 0
        /\ (SamePatch(left, right) /\ <<StageOf(left), StageOf(right)>> \in StageBefore)
              => cmp[1] = -1
        /\ (Len(left) = 5 /\ Len(right) = 8 /\ NextPatch(left, right)) => cmp[1] = -1
        /\ (left = V_5_0_3_rc2 /\ right = V_5_0_3) => cmp[1] = -1
        /\ (left = V_5_0_3 /\ right = V_5_0_4_alpha0) => cmp[1] = -1

C8_Witness == cmp # <<>> /\ left = V_5_0_3_rc2 /\ right = V_5_0_3 /\ cmp[1] = -1

\* C9: a bare MAJOR.MINOR string parses to (major, minor, 0, stable, 0) and
\* so compares equal to the untagged MAJOR.MINOR.0: collate("4.4", "4.4.0") = 0.
C9_BareEqualsPatchZero ==
    (cmp # <<>> /\ Len(left) = 3 /\ right = PatchStr(left[1].n, left[3].n, 0))
        => /\ version_tup(left) = <<left[1].n, left[3].n, 0, STABLE_MAX_RC, 0>>
           /\ cmp[1] = 0

(***************************************************************************)
(* DownloadRetrier: an object constructed with its number of retries, on   *)
(* which retry() is called any number of times.                            *)
(***************************************************************************)
\* The largest number of retries a retrier is constructed with.
MaxRetries == 11
\* How many calls of retry() are made after the one that returned False.
MaxExhaustedCalls == 2

ten_minutes == 600

Min(a, b) == IF a <= b THEN a ELSE b

\* if self.attempt >= self.retries: return False
retry_exhausted_late(a, n) == a > n

retry_exhausted(a, n) == a >= n

\* time.sleep(min(2 ** (self.attempt - 1), ten_minutes)), attempt already counted
backoff_uncapped(a) == 2 ^ (a - 1)

backoff(a) == Min(2 ^ (a - 1), ten_minutes)

\* DownloadRetrier.__init__
DownloadRetrier_init(n) ==
    /\ n >= 0
    /\ retries' = n
    /\ attempt' = 0
    /\ slept' = <<>>
    /\ returned' = <<>>

\* DownloadRetrier.retry: the whole call, its sleep included.
retry ==
    IF retry_exhausted(attempt, retries)
    THEN /\ returned' = Append(returned, FALSE)
         /\ UNCHANGED <<retries, attempt, slept>>
    ELSE /\ attempt' = attempt + 1
         /\ slept' = Append(slept, backoff(attempt + 1))
         /\ returned' = Append(returned, TRUE)
         /\ UNCHANGED retries

InitRetrier ==
    /\ retries \in 0..MaxRetries
    /\ attempt = 0
    /\ slept = <<>>
    /\ returned = <<>>
    /\ IdleVersion
    /\ IdleRun
    /\ IdleCache
    /\ IdleCatalog
    /\ IdlePattern
    /\ IdleExtract
    /\ IdleResolve
    /\ IdleLoop
    /\ IdleStore

Retry ==
    /\ Len(returned) < retries + 1 + MaxExhaustedCalls
    /\ retry
    /\ UNCHANGED others_retrier

NextRetrier == Retry

SpecRetrier == InitRetrier /\ [][NextRetrier]_vars

\* C4: with N retries the first N calls of retry() return true, every later
\* call (the (N+1)-th first) returns false, and attempt never exceeds N.
C4_RetryBudget ==
    /\ attempt <= retries
    /\ \A i \in 1..Len(returned) : returned[i] = (i <= retries)

C4_Witness == retries = 3 /\ returned = <<TRUE, TRUE, TRUE, FALSE>> /\ attempt = 3

\* C5: the k-th retry() that returns true sleeps min(2^(k-1), 600) before it
\* returns, a call that returns false does not sleep, and with retries = 3 the
\* delays are 1, 2, 4 when the 4th call signals exhaustion.
C5_Backoff ==
    /\ Len(slept) = Cardinality({i \in 1..Len(returned) : returned[i]})
    /\ \A k \in 1..Len(slept) : slept[k] = Min(2 ^ (k - 1), 600)
    /\ (retries = 3 /\ Len(returned) >= 4) => slept = <<1, 2, 4>>
    /\ (Len(slept) >= 11) => slept[11] = 600

C5_Witness ==
    /\ retries = 3 /\ Len(returned) = 4 /\ ~returned[4]
    /\ slept = <<1, 2, 4>>

(***************************************************************************)
(* One run of main(): mongodl refreshes the catalog, resolves the URL,     *)
(* prints it and, unless --no-download, runs the download block under a    *)
(* DownloadRetrier; mongosh_dl does the same without a catalog.  What the  *)
(* network, the catalog and the archive answer is chosen by the            *)
(* environment.                                                            *)
(***************************************************************************)
Last(seq) == seq[Len(seq)]

InitRun ==
    /\ tool \in {"mongodl", "mongosh"}
    /\ rversion \in {"latest", "latest-release", "exact"}
    /\ component \in {"archive", "crypt_shared"}
    /\ rhel \in BOOLEAN
    /\ tool = "mongosh" => (rversion # "latest-release" /\ component = "archive" /\ ~rhel)
    /\ no_download \in BOOLEAN
    /\ run_retries \in 0..MaxRetries
    /\ pc = "main" /\ stdout_urls = 0 /\ fetches = 0 /\ artifact_fetches = 0
    /\ extracts = 0 /\ blocks = 0 /\ outcomes = <<>>
    /\ raised_from = 0 /\ lookups = 0 /\ sha_known = FALSE
    /\ IdleRetrier
    /\ IdleVersion
    /\ IdleCache
    /\ IdleCatalog
    /\ IdlePattern
    /\ IdleExtract
    /\ IdleResolve
    /\ IdleLoop
    /\ IdleStore

\* mongodl main: cache.refresh_full_json(), a download_file of the manifest
\* and its import; an exception ends the run.
MainRefresh ==
    /\ tool = "mongodl" /\ pc = "main"
    /\ fetches' = fetches + 1
    /\ \E ok \in BOOLEAN : pc' = IF ok THEN "resolve" ELSE "raised"
    /\ UNCHANGED <<vargs, stdout_urls, artifact_fetches, extracts, blocks, outcomes,
                   raised_from, lookups, sha_known>>
    /\ UNCHANGED <<vretrier, others_run>>

\* _dl_component up to the print: _latest_build_url or _published_build_url,
\* with the one crypt_shared fallback to latest-release.
DlResolve ==
    /\ tool = "mongodl" /\ pc = "resolve"
    /\ \E hit1 \in BOOLEAN, hit2 \in BOOLEAN, has_sha \in BOOLEAN :
         IF rversion = "latest"
         THEN IF ~rhel
              THEN /\ lookups' = 0 /\ sha_known' = FALSE /\ pc' = "print"
              ELSE /\ lookups' = 1 /\ sha_known' = FALSE
                   /\ pc' = IF hit1 /\ has_sha THEN "print" ELSE "raised"
         ELSE IF hit1
              THEN /\ lookups' = 1 /\ sha_known' = has_sha
                   /\ pc' = IF has_sha THEN "print" ELSE "raised"
              ELSE IF component = "crypt_shared" /\ rversion # "latest-release"
                   THEN /\ lookups' = 2 /\ sha_known' = (hit2 /\ has_sha)
                        /\ pc' = IF hit2 /\ has_sha THEN "print" ELSE "raised"
                   ELSE /\ lookups' = 1 /\ sha_known' = FALSE /\ pc' = "raised"
    /\ UNCHANGED <<vargs, stdout_urls, fetches, artifact_fetches, extracts, blocks,
                   outcomes, raised_from>>
    /\ UNCHANGED <<vretrier, others_run>>

\* mongosh_dl._get_latest_version: its own retrier.
MshLatest ==
    /\ tool = "mongosh" /\ pc = "main" /\ rversion = "latest"
    /\ DownloadRetrier_init(run_retries)
    /\ pc' = "latest_version"
    /\ UNCHANGED <<vargs, stdout_urls, fetches, artifact_fetches, extracts, blocks,
                   outcomes, raised_from, lookups, sha_known>>
    /\ UNCHANGED others_run

\* One pass of the loop of _get_latest_version: download_file of mongosh.json
\* and the read of its first version.
MshLatestAttempt ==
    /\ tool = "mongosh" /\ pc = "latest_version"
    /\ fetches' = fetches + 1
    /\ \E ok \in BOOLEAN :
         IF ok
         THEN pc' = "resolve" /\ UNCHANGED vretrier
         ELSE retry /\ pc' = IF Last(returned') THEN "latest_version" ELSE "raised"
    /\ UNCHANGED <<vargs, stdout_urls, artifact_fetches, extracts, blocks, outcomes,
                   raised_from, lookups, sha_known>>
    /\ UNCHANGED others_run

\* mongosh_dl._download up to the print: the URL is built from the arguments
\* (the openssl probe may raise).
MshResolve ==
    /\ tool = "mongosh"
    /\ pc = "resolve" \/ (pc = "main" /\ rversion # "latest")
    /\ \E ok \in BOOLEAN : pc' = IF ok THEN "print" ELSE "raised"
    /\ UNCHANGED <<vargs, stdout_urls, fetches, artifact_fetches, extracts, blocks,
                   outcomes, raised_from, lookups, sha_known>>
    /\ UNCHANGED <<vretrier, others_run>>

\* print(dl_url): the number of lines written to stdout.
prints_url_unless_no_download(no_dl) == IF no_dl THEN 0 ELSE 1

prints_url(no_dl) == 1

PrintUrl ==
    /\ pc = "print"
    /\ stdout_urls' = stdout_urls + prints_url(no_download)
    /\ pc' = "printed"
    /\ UNCHANGED <<vargs, fetches, artifact_fetches, extracts, blocks, outcomes,
                   raised_from, lookups, sha_known>>
    /\ UNCHANGED <<vretrier, others_run>>

\* if no_download: return
NoDownload ==
    /\ pc = "printed" /\ no_download
    /\ pc' = "returned"
    /\ UNCHANGED <<vargs, stdout_urls, fetches, artifact_fetches, extracts, blocks,
                   outcomes, raised_from, lookups, sha_known>>
    /\ UNCHANGED <<vretrier, others_run>>

\* retrier = DownloadRetrier(retries)
StartLoop ==
    /\ pc = "printed" /\ ~no_download
    /\ DownloadRetrier_init(run_retries)
    /\ pc' = "attempt"
    /\ UNCHANGED <<vargs, stdout_urls, fetches, artifact_fetches, extracts, blocks,
                   outcomes, raised_from, lookups, sha_known>>
    /\ UNCHANGED others_run

\* The block returned: download_file, the checksum (when known) and
\* _expand_archive all succeeded.
AttemptOk ==
    /\ pc = "attempt"
    /\ fetches' = fetches + 1
    /\ artifact_fetches' = artifact_fetches + 1
    /\ extracts' = extracts + 1
    /\ blocks' = blocks + 1
    /\ outcomes' = Append(outcomes, "ok")
    /\ pc' = "returned"
    /\ UNCHANGED <<vargs, stdout_urls, raised_from, lookups, sha_known>>
    /\ UNCHANGED <<vretrier, others_run>>

\* if not retrier.retry(): raise
loop_gives_up_at_once(retry_result) == FALSE

loop_continues(retry_result) == retry_result

\* The block raised in download_file, in the checksum test or in
\* _expand_archive; the handler asks the retrier.
AttemptFail ==
    /\ pc = "attempt"
    /\ \E failure \in {"download", "shasum", "expand"} :
         /\ failure = "shasum" => (sha_known /\ tool = "mongodl")
         /\ extracts' = extracts + (IF failure = "expand" THEN 1 ELSE 0)
    /\ fetches' = fetches + 1
    /\ artifact_fetches' = artifact_fetches + 1
    /\ blocks' = blocks + 1
    /\ outcomes' = Append(outcomes, "fail")
    /\ retry
    /\ IF loop_continues(Last(returned'))
       THEN pc' = "attempt" /\ UNCHANGED raised_from
       ELSE pc' = "raised" /\ raised_from' = blocks + 1
    /\ UNCHANGED <<vargs, stdout_urls, lookups, sha_known>>
    /\ UNCHANGED others_run

NextRun ==
    \/ MainRefresh
    \/ DlResolve
    \/ MshLatest
    \/ MshLatestAttempt
    \/ MshResolve
    \/ PrintUrl
    \/ NoDownload
    \/ StartLoop
    \/ AttemptOk
    \/ AttemptFail

SpecRun == InitRun /\ [][NextRun]_vars

\* C6: with retries = N the block is executed at most N+1 times; a failed
\* execution that is not the (N+1)-th is followed by another attempt, the first
\* successful execution returns with no further attempt, and when all N+1
\* executions failed the exception of the last one propagates.
C6_BoundedAttempts ==
    /\ blocks = Len(outcomes)
    /\ blocks <= run_retries + 1
    /\ \A i \in 1..(blocks - 1) : outcomes[i] = "fail"
    /\ (blocks >= 1 /\ Last(outcomes) = "ok") => pc = "returned"
    /\ (blocks >= 1 /\ Last(outcomes) = "fail" /\ blocks <= run_retries) => pc = "attempt"
    /\ (blocks >= 1 /\ Last(outcomes) = "fail" /\ blocks = run_retries + 1)
          => (pc = "raised" /\ raised_from = blocks)
    /\ (pc = "raised" /\ blocks >= 1) => blocks = run_retries + 1

C6_Witness ==
    /\ run_retries = 2 /\ pc = "raised"
    /\ outcomes = <<"fail", "fail", "fail">> /\ raised_from = 3

\* C7 as amended: a run that resolves a URL writes it to stdout exactly once,
\* whatever the number of attempts and also with --no-download, before any
\* fetch or extraction of the resolved artifact is started; the fetch of the
\* manifest (refresh_full_json, _get_latest_version) comes before the print.
C7_PrintedOnceBeforeArtifactFetch ==
    /\ stdout_urls <= 1
    /\ pc \in {"printed", "attempt", "returned"} => stdout_urls = 1
    /\ (pc = "raised" /\ blocks >= 1) => stdout_urls = 1
    /\ stdout_urls = 0 => (artifact_fetches = 0 /\ extracts = 0 /\ blocks = 0)

C7_Witness ==
    /\ tool = "mongodl" /\ blocks >= 2 /\ stdout_urls = 1 /\ pc = "returned"

\* C7 as stated: the URL is written exactly once and before any fetch or
\* extract attempt is started.
C7_PrintedOnceBeforeAnyFetch ==
    /\ stdout_urls <= 1
    /\ pc \in {"printed", "attempt", "returned"} => stdout_urls = 1
    /\ stdout_urls = 0 => (fetches = 0 /\ extracts = 0)

(***************************************************************************)
(* Cache.download_file.  The call is two steps, the request and the        *)
(* handling of the response; between them, and between calls, the remote   *)
(* file may change and a cached file may be removed from the cache         *)
(* directory.  A body stands for the bytes of one remote file content; the *)
(* ETag and the Last-Modified of a content are written as the body they    *)
(* belong to.                                                              *)
(***************************************************************************)
Bodies == {"A", "B"}
CacheUrls == {"u1"}

\* dest = <cache>/files/<sha256(url)[:4]>/<last segment of url>
DestTable == [u1 |-> "p1", u2 |-> "p2", u3 |-> "p1"]
dest_of(url) == DestTable[url]

NoRow == [row |-> FALSE, etag |-> "none", last_modified |-> "none"]
NoHeaders == [inm |-> "none", ims |-> "none"]
IdleCall ==
    [phase |-> "idle", url |-> "", stored |-> NoRow, hdr |-> NoHeaders,
     resp |-> "", result |-> "", had_file |-> FALSE, content |-> "absent",
     requests |-> 0, was_stable |-> TRUE, was_kept |-> TRUE]
NoPrev == [result |-> "", content |-> "absent"]

InitCache ==
    /\ remote \in [CacheUrls -> Bodies]
    /\ validators = [u \in CacheUrls |-> NoRow]
    /\ files = [p \in {dest_of(u) : u \in CacheUrls} |-> "absent"]
    /\ call = IdleCall
    /\ prev = NoPrev
    /\ stable = TRUE /\ kept = TRUE
    /\ IdleVersion
    /\ IdleRetrier
    /\ IdleRun
    /\ IdleCatalog
    /\ IdlePattern
    /\ IdleExtract
    /\ IdleResolve
    /\ IdleLoop
    /\ IdleStore

\* The request headers: If-None-Match and If-Modified-Since from the stored
\* row, and none at all when dest does not exist.
request_headers_never(stored, dest_exists) == NoHeaders

request_headers(stored, dest_exists) ==
    IF dest_exists
    THEN [inm |-> stored.etag, ims |-> stored.last_modified]
    ELSE NoHeaders

\* The server answers 304 to a conditional request whose validator names the
\* current content; If-None-Match takes precedence over If-Modified-Since.
server_not_modified(hdr, body) ==
    \/ hdr.inm # "none" /\ hdr.inm = body
    \/ hdr.inm = "none" /\ hdr.ims # "none" /\ hdr.ims = body

\* download_file up to urlopen: the SELECT, the headers, the request.
DownloadSend ==
    /\ call.phase \in {"idle", "done"}
    /\ \E url \in DOMAIN remote :
         call' = [IdleCall EXCEPT
                    !.phase = "sent",
                    !.url = url,
                    !.stored = validators[url],
                    !.hdr = request_headers(validators[url], files[dest_of(url)] # "absent"),
                    !.requests = 1]
    /\ prev' = IF call.phase = "done"
               THEN [result |-> call.result, content |-> call.content]
               ELSE prev
    /\ UNCHANGED <<remote, validators, files, stable, kept>>
    /\ UNCHANGED others_cache

\* except HTTPError with e.code == 304: assert dest.is_file(); return (False, dest)
on_not_modified_unchecked(dest_is_file) == "unchanged"

on_not_modified(dest_is_file) == IF dest_is_file THEN "unchanged" ELSE "error"

Ended(resp, result) ==
    /\ call' = [call EXCEPT
                   !.phase = "done", !.resp = resp, !.result = result,
                   !.had_file = (files[dest_of(call.url)] # "absent"),
                   !.content = files'[dest_of(call.url)],
                   !.was_stable = stable, !.was_kept = kept]
    /\ stable' = TRUE
    /\ kept' = TRUE
    /\ UNCHANGED <<remote, prev>>
    /\ UNCHANGED others_cache

\* if file_size != got_len: raise RuntimeError(...), before the INSERT OR
\* REPLACE: the row of the URL after the size test.
row_after_size_unchecked(size_ok, stored, got) == got

row_after_size_check(size_ok, stored, got) == IF size_ok THEN got ELSE stored

\* urlopen raised HTTPError 304.
RespondNotModified ==
    /\ call.phase = "sent"
    /\ server_not_modified(call.hdr, remote[call.url])
    /\ UNCHANGED <<validators, files>>
    /\ Ended("not_modified", on_not_modified(files[dest_of(call.url)] # "absent"))

\* urlopen raised: an HTTP error other than 304, or a transport error.
RespondFailed ==
    /\ call.phase = "sent"
    /\ UNCHANGED <<validators, files>>
    /\ Ended("failed", "error")

\* A full response without Content-Length: int(None) raises before dest is
\* opened.
RespondNoLength ==
    /\ call.phase = "sent"
    /\ ~server_not_modified(call.hdr, remote[call.url])
    /\ UNCHANGED <<validators, files>>
    /\ Ended("no_length", "error")

\* A full response whose body ends early: dest is written, the size test
\* raises, the row is not written.
RespondShort ==
    /\ call.phase = "sent"
    /\ ~server_not_modified(call.hdr, remote[call.url])
    /\ files' = [files EXCEPT ![dest_of(call.url)] = "partial"]
    /\ \E got_etag \in {"none", remote[call.url]},
          got_modtime \in {"none", remote[call.url]} :
         validators' = [validators EXCEPT ![call.url] =
                          row_after_size_check(FALSE, @,
                              [row |-> TRUE, etag |-> got_etag, last_modified |-> got_modtime])]
    /\ Ended("short", "error")

\* A full response: dest is written, the size test passes, INSERT OR REPLACE
\* of the row with the response's ETag and Last-Modified (either may be None).
RespondFull ==
    /\ call.phase = "sent"
    /\ ~server_not_modified(call.hdr, remote[call.url])
    /\ files' = [files EXCEPT ![dest_of(call.url)] = remote[call.url]]
    /\ \E got_etag \in {"none", remote[call.url]},
          got_modtime \in {"none", remote[call.url]} :
         validators' = [validators EXCEPT ![call.url] =
                          row_after_size_check(TRUE, @,
                              [row |-> TRUE, etag |-> got_etag, last_modified |-> got_modtime])]
    /\ Ended("full", "changed")

\* The remote file gets another content.
RemoteChange ==
    /\ \E url \in DOMAIN remote, body \in Bodies :
         /\ body # remote[url]
         /\ remote' = [remote EXCEPT ![url] = body]
    /\ stable' = FALSE
    /\ UNCHANGED <<validators, files, call, prev, kept>>
    /\ UNCHANGED others_cache

\* A cached file is removed from the cache directory by its user.
CacheFileRemoved ==
    /\ \E path \in DOMAIN files :
         /\ files[path] # "absent"
         /\ files' = [files EXCEPT ![path] = "absent"]
    /\ kept' = FALSE
    /\ UNCHANGED <<remote, validators, call, prev, stable>>
    /\ UNCHANGED others_cache

NextCache ==
    \/ DownloadSend
    \/ RespondNotModified
    \/ RespondFailed
    \/ RespondNoLength
    \/ RespondShort
    \/ RespondFull
    \/ RemoteChange
    \/ CacheFileRemoved

SpecCache == InitCache /\ [][NextCache]_vars

\* C2: download_file returns changed=false only when the remote answered
\* "not modified" and the cached file exists; "not modified" with the cached
\* file absent makes the call fail; a call makes one request, never a second.
C2_UnchangedNeedsCachedFile ==
    call.phase = "done" =>
        /\ call.result = "unchanged" => (call.resp = "not_modified" /\ call.had_file)
        /\ (call.resp = "not_modified" /\ ~call.had_file) => call.result = "error"
        /\ call.requests = 1

C2_Witness ==
    /\ call.phase = "done" /\ call.resp = "not_modified"
    /\ ~call.had_file /\ call.result = "error" /\ call.requests = 1

HasValidator(row) == row.etag # "none" \/ row.last_modified # "none"

\* The call just ended is the second of two calls for one URL that both
\* returned, with the remote content and the cache directory untouched since
\* the first one ended.
SecondOfTwoFetches ==
    /\ call.phase = "done"
    /\ prev.result \in {"changed", "unchanged"}
    /\ call.result \in {"changed", "unchanged"}
    /\ call.was_stable /\ call.was_kept

\* C3 as amended: of two fetches of one URL with the remote unchanged between
\* them, the second yields changed=false and leaves the content the first
\* left, provided the row stored for the URL holds an ETag or a Last-Modified
\* (the server sent one with the content).
C3_SecondFetchUnchanged ==
    (SecondOfTwoFetches /\ HasValidator(call.stored))
        => (call.result = "unchanged" /\ call.content = prev.content)

C3_Witness ==
    /\ SecondOfTwoFetches /\ HasValidator(call.stored)
    /\ prev.result = "changed" /\ call.result = "unchanged"
    /\ call.content = prev.content /\ call.content \in Bodies

\* C3 as stated: of two fetches of one URL with the remote unchanged between
\* them, the second yields changed=false and the content is the same after both.
C3_SecondFetchAlwaysUnchanged ==
    SecondOfTwoFetches
        => (call.result = "unchanged" /\ call.content = prev.content)

\* C19: a full response whose written size differs from Content-Length makes
\* download_file fail and leaves the row stored for the URL as it was before
\* the call; the row is replaced only by a call whose size test passed.
C19_ValidatorsAfterSizeCheck ==
    call.phase = "done" =>
        /\ call.resp = "short" =>
              (call.result = "error" /\ validators[call.url] = call.stored)
        /\ validators[call.url] # call.stored => call.resp = "full"
        /\ call.resp = "full" =>
              (call.result = "changed" /\ validators[call.url].row)

C19_Witness ==
    /\ call.phase = "done" /\ call.resp = "short" /\ call.result = "error"
    /\ call.stored.row /\ call.stored.etag = "A" /\ remote[call.url] = "B"
    /\ validators[call.url] = call.stored
    /\ files[dest_of(call.url)] = "partial"

\* C30: whenever a row with a validator is stored for a URL and its cached
\* file exists, the file holds the bytes of the response the validator came
\* with; a call that returns changed=false returns a complete file.
C30_CachedFileMatchesValidators ==
    /\ \A url \in DOMAIN validators :
          (HasValidator(validators[url]) /\ files[dest_of(url)] # "absent") =>
              \/ files[dest_of(url)] = validators[url].etag
              \/ files[dest_of(url)] = validators[url].last_modified
    /\ (call.phase = "done" /\ call.result = "unchanged") => call.content \in Bodies

(***************************************************************************)
(* The catalog: CacheDB.import_json_data and CacheDB.iter_available.  The  *)
(* tables a reader of the database file sees are db; the statements of an  *)
(* open transaction work on tx.cat and reach db at COMMIT.  An import is   *)
(* one step per entry of the manifest's version list.                      *)
(***************************************************************************)
\* The longest version list of a manifest.
MaxVersions == 2

NoCatalog == [exists |-> FALSE, versions |-> <<>>, downloads |-> <<>>, components |-> <<>>]
EmptyCatalog == [exists |-> TRUE, versions |-> <<>>, downloads |-> <<>>, components |-> <<>>]

\* The fields of one JSON object of the manifest, in document order: a string,
\* an object (with or without "url"), or null.
StrItem(key, text) ==
    [key |-> key, kind |-> "str", text |-> text,
     url |-> "none", sha256 |-> "none", debug_symbols |-> "none"]
DictItem(key, url, sha256, debug_symbols) ==
    [key |-> key, kind |-> "dict", text |-> "",
     url |-> url, sha256 |-> sha256, debug_symbols |-> debug_symbols]
NullItem(key) ==
    [key |-> key, kind |-> "null", text |-> "",
     url |-> "none", sha256 |-> "none", debug_symbols |-> "none"]

DL_rhel ==
    <<StrItem("arch", "x86_64"), StrItem("edition", "enterprise"),
      StrItem("target", "rhel80"),
      DictItem("archive", "U1", "S1", "D1"),
      DictItem("crypt_shared", "U2", "S2", "none")>>
DL_windows ==
    <<StrItem("arch", "x86_64"), StrItem("edition", "enterprise"),
      StrItem("target", "windows"),
      DictItem("archive", "U3", "S3", "none"),
      DictItem("msi", "none", "none", "none")>>
DL_plan9 ==
    <<StrItem("arch", "x86_64"), StrItem("edition", "base"),
      StrItem("target", "plan9"),
      DictItem("archive", "U4", "S4", "none")>>
DL_no_edition ==
    <<StrItem("arch", "x86_64"), StrItem("target", "windows"),
      DictItem("archive", "U5", "S5", "none")>>
DL_null_field ==
    <<StrItem("arch", "x86_64"), StrItem("edition", "base"),
      StrItem("target", "macos"),
      DictItem("archive", "U6", "S6", "none"),
      NullItem("cryptd")>>

V_7_0_0_rc1 == TaggedStr(7, 0, 0, "rc", 1)
V_7_0_0_rc9999 == TaggedStr(7, 0, 0, "rc", STABLE_MAX_RC)
V_6_1_0 == PatchStr(6, 1, 0)

VE_stable == [version |-> V_6_0_6, complete |-> TRUE, downloads |-> <<DL_rhel, DL_windows>>]
VE_rc == [version |-> V_7_0_0_rc1, complete |-> TRUE, downloads |-> <<DL_windows>>]
VE_unknown_target ==
    [version |-> V_7_0_0_rc9999, complete |-> TRUE, downloads |-> <<DL_plan9>>]
VE_no_edition ==
    [version |-> V_6_1_0, complete |-> TRUE, downloads |-> <<DL_windows, DL_no_edition>>]
VE_null_field == [version |-> V_4_4_0, complete |-> TRUE, downloads |-> <<DL_null_field>>]
VE_no_githash == [version |-> V_5_0_3, complete |-> FALSE, downloads |-> <<DL_windows>>]

VersionEntries ==
    {VE_stable, VE_rc, VE_unknown_target, VE_no_edition, VE_null_field, VE_no_githash}

\* data["versions"] of the manifests handed to the import.
Manifests == UNION {[1..n -> VersionEntries] : n \in 0..MaxVersions}

\* DISTRO_ID_TO_TARGET.values() taken together, and TARGETS_THAT_ARE_NOT_DISTROS.
DistroTargets ==
    {"ubuntu2404", "ubuntu2204", "ubuntu2004", "ubuntu1804", "ubuntu1604", "ubuntu1404",
     "debian92", "debian10", "debian11", "debian12",
     "rhel6", "rhel7", "rhel8", "rhel9",
     "suse10", "suse11", "suse12", "suse13", "suse15",
     "amazon2023", "amzn64", "amazon2"}
TARGETS_THAT_ARE_NOT_DISTROS == {"linux_i686", "linux_x86_64", "osx", "macos", "windows"}

\* target[:-1] for the six-character targets that start with "rhel".
RhelSixChars ==
    [rhel62 |-> "rhel6", rhel70 |-> "rhel7", rhel80 |-> "rhel8", rhel90 |-> "rhel9",
     rhel93 |-> "rhel9"]
normalize_target(target) ==
    IF target \in DOMAIN RhelSixChars THEN RhelSixChars[target] ELSE target

has_key(obj, key) == \E i \in 1..Len(obj) : obj[i].key = key
item_of(obj, key) == obj[CHOOSE i \in 1..Len(obj) : obj[i].key = key]
\* dl.get(key, "null")
dl_get(obj, key) == IF has_key(obj, key) THEN item_of(obj, key).text ELSE "null"
\* "url" in data, for an object
has_url(item) == item.kind = "dict" /\ item.url # "none"

insert_version(cat, ver) ==
    [cat EXCEPT !.versions =
        Append(@, [version_id |-> Len(@) + 1, version |-> ver.version])]

\* An INSERT INTO mdl_downloads that does not use the lastrowid of the
\* version row.
insert_download_unlinked(cat, obj, version_id, target) ==
    [cat EXCEPT !.downloads =
        Append(@, [download_id |-> Len(@) + 1,
                   version_id |-> 0,
                   target |-> target,
                   arch |-> dl_get(obj, "arch"),
                   edition |-> item_of(obj, "edition").text,
                   ar_url |-> item_of(obj, "archive").url,
                   ar_debug_url |-> item_of(obj, "archive").debug_symbols])]

insert_download(cat, obj, version_id, target) ==
    [cat EXCEPT !.downloads =
        Append(@, [download_id |-> Len(@) + 1,
                   version_id |-> version_id,
                   target |-> target,
                   arch |-> dl_get(obj, "arch"),
                   edition |-> item_of(obj, "edition").text,
                   ar_url |-> item_of(obj, "archive").url,
                   ar_debug_url |-> item_of(obj, "archive").debug_symbols])]

insert_component(cat, item, dl_id) ==
    [cat EXCEPT !.components =
        Append(@, [component_id |-> Len(@) + 1,
                   key |-> item.key,
                   download_id |-> dl_id,
                   data |-> [url |-> item.url, sha256 |-> item.sha256,
                             debug_symbols |-> item.debug_symbols]])]

\* for key, data in dl.items(): from the k-th field on.  "url" not in None
\* raises.
RECURSIVE import_items(_, _, _, _)
import_items(cat, obj, k, dl_id) ==
    IF k > Len(obj)
    THEN [ok |-> TRUE, cat |-> cat]
    ELSE IF obj[k].kind = "null"
    THEN [ok |-> FALSE, cat |-> cat]
    ELSE IF ~has_url(obj[k])
    THEN import_items(cat, obj, k + 1, dl_id)
    ELSE import_items(insert_component(cat, obj[k], dl_id), obj, k + 1, dl_id)

\* The body of "for dl in ver['downloads']" for one download.
import_download(cat, obj, version_id, missing) ==
    LET target == normalize_target(dl_get(obj, "target"))
        found == target \in DistroTargets
        missing1 == IF ~found /\ target \notin TARGETS_THAT_ARE_NOT_DISTROS
                    THEN missing \cup {target}
                    ELSE missing
    IN  IF ~has_key(obj, "edition")
        THEN [ok |-> FALSE, cat |-> cat, missing |-> missing1]
        ELSE IF ~has_key(obj, "archive") \/ ~has_url(item_of(obj, "archive"))
        THEN [ok |-> FALSE, cat |-> cat, missing |-> missing1]
        ELSE LET cat1 == insert_download(cat, obj, version_id, target)
                 r == import_items(cat1, obj, 1, Len(cat1.downloads))
             IN  [ok |-> r.ok, cat |-> r.cat, missing |-> missing1]

RECURSIVE import_downloads(_, _, _, _, _)
import_downloads(cat, dls, j, version_id, missing) ==
    IF j > Len(dls)
    THEN [ok |-> TRUE, cat |-> cat, missing |-> missing]
    ELSE LET r == import_download(cat, dls[j], version_id, missing)
         IN  IF r.ok
             THEN import_downloads(r.cat, dls, j + 1, version_id, r.missing)
             ELSE r

\* The body of "for ver in data['versions']" for one entry; missing = set()
\* is inside this loop.
import_version(cat, ver) ==
    IF ~ver.complete
    THEN [ok |-> FALSE, cat |-> cat, missing |-> {}]
    ELSE LET cat1 == insert_version(cat, ver)
         IN  import_downloads(cat1, ver.downloads, 1, Len(cat1.versions), {})

\* "with self._db:" commits when the block ends and rolls back when it raises.
transaction_exit_commits(ok, committed, working) == working

transaction_exit(ok, committed, working) == IF ok THEN working ELSE committed

NoGeneration == [any |-> FALSE, manifest |-> <<>>]
NoTx == [open |-> FALSE, cat |-> NoCatalog]
IdleImport ==
    [pc |-> "idle", manifest |-> <<>>, i |-> 0, missing |-> {}, validate |-> FALSE,
     before |-> NoCatalog, written |-> 0]

NULL == "<NULL>"
NullStr == <<[k |-> "null", n |-> 0, w |-> ""]>>
Alias(name) == <<[k |-> "alias", n |-> 0, w |-> name]>>
NoQuery ==
    [asked |-> FALSE, failed |-> FALSE, version |-> NullStr, target |-> NULL,
     arch |-> NULL, edition |-> NULL, component |-> NULL]

InitCatalog ==
    /\ db = NoCatalog
    /\ tx = NoTx
    /\ imp = IdleImport
    /\ generation = NoGeneration
    /\ query = NoQuery
    /\ rows = <<>>
    /\ IdleVersion
    /\ IdleRetrier
    /\ IdleRun
    /\ IdleCache
    /\ IdlePattern
    /\ IdleExtract
    /\ IdleResolve
    /\ IdleLoop
    /\ IdleStore

RowsWritten(cat) == Len(cat.versions) + Len(cat.downloads) + Len(cat.components)

\* import_json_data up to the loop: BEGIN, the three DROP TABLE IF EXISTS and
\* the three CREATE TABLE.  VALIDATE_DISTROS is read from the environment.
ImportBegin ==
    /\ imp.pc = "idle"
    /\ ~query.asked
    /\ ~tx.open
    /\ \E manifest \in Manifests, validate \in BOOLEAN :
         imp' = [pc |-> "rows", manifest |-> manifest, i |-> 1, missing |-> {},
                 validate |-> validate, before |-> db, written |-> 0]
    /\ tx' = [open |-> TRUE, cat |-> EmptyCatalog]
    /\ UNCHANGED <<db, generation, query, rows>>
    /\ UNCHANGED others_catalog

\* One entry of the version list imported.
ImportVersion ==
    /\ imp.pc = "rows" /\ imp.i <= Len(imp.manifest)
    /\ LET r == import_version(tx.cat, imp.manifest[imp.i])
       IN  /\ r.ok
           /\ tx' = [tx EXCEPT !.cat = r.cat]
           /\ imp' = [imp EXCEPT !.i = @ + 1, !.missing = r.missing]
    /\ UNCHANGED <<db, generation, query, rows>>
    /\ UNCHANGED others_catalog

\* One entry of the version list raised (KeyError, TypeError): the exception
\* leaves the transaction.
ImportVersionRaises ==
    /\ imp.pc = "rows" /\ imp.i <= Len(imp.manifest)
    /\ LET r == import_version(tx.cat, imp.manifest[imp.i])
       IN  /\ ~r.ok
           /\ db' = transaction_exit(FALSE, db, r.cat)
           /\ imp' = [imp EXCEPT !.pc = "raised", !.written = RowsWritten(r.cat)]
    /\ tx' = NoTx
    /\ UNCHANGED <<generation, query, rows>>
    /\ UNCHANGED others_catalog

\* After the loop over an empty version list "if missing:" reads a local that
\* was never bound: UnboundLocalError.
ImportNoVersions ==
    /\ imp.pc = "rows" /\ imp.i > Len(imp.manifest)
    /\ Len(imp.manifest) = 0
    /\ db' = transaction_exit(FALSE, db, tx.cat)
    /\ imp' = [imp EXCEPT !.pc = "raised", !.written = RowsWritten(tx.cat)]
    /\ tx' = NoTx
    /\ UNCHANGED <<generation, query, rows>>
    /\ UNCHANGED others_catalog

\* if missing: ... if os.environ.get("VALIDATE_DISTROS") == "1": sys.exit(1)
ImportExits ==
    /\ imp.pc = "rows" /\ imp.i > Len(imp.manifest)
    /\ Len(imp.manifest) > 0
    /\ imp.missing # {} /\ imp.validate
    /\ db' = transaction_exit(FALSE, db, tx.cat)
    /\ imp' = [imp EXCEPT !.pc = "exited", !.written = RowsWritten(tx.cat)]
    /\ tx' = NoTx
    /\ UNCHANGED <<generation, query, rows>>
    /\ UNCHANGED others_catalog

\* The import returns and the transaction commits.
ImportCommits ==
    /\ imp.pc = "rows" /\ imp.i > Len(imp.manifest)
    /\ Len(imp.manifest) > 0
    /\ ~(imp.missing # {} /\ imp.validate)
    /\ db' = transaction_exit(TRUE, db, tx.cat)
    /\ imp' = [imp EXCEPT !.pc = "committed", !.written = RowsWritten(tx.cat)]
    /\ tx' = NoTx
    /\ generation' = [any |-> TRUE, manifest |-> imp.manifest]
    /\ UNCHANGED <<query, rows>>
    /\ UNCHANGED others_catalog

\* FROM mdl_components, mdl_downloads USING(download_id),
\* mdl_versions USING(version_id): the joined row of one component.
download_of(cat, comp) ==
    cat.downloads[CHOOSE i \in 1..Len(cat.downloads) :
                    cat.downloads[i].download_id = comp.download_id]
version_of(cat, dl) ==
    cat.versions[CHOOSE i \in 1..Len(cat.versions) :
                    cat.versions[i].version_id = dl.version_id]
joined_row(cat, comp) ==
    LET dl == download_of(cat, comp)
    IN  [version |-> version_of(cat, dl).version, target |-> dl.target,
         arch |-> dl.arch, edition |-> dl.edition, key |-> comp.key,
         data_json |-> comp.data]

\* version LIKE :version_pattern, the pattern being f"{version}.%"
like_pattern(version, filter) ==
    /\ Len(version) > Len(filter)
    /\ SubSeq(version, 1, Len(filter)) = filter
    /\ version[Len(filter) + 1].k = "dot"

\* The CASE of the WHERE clause.
version_matches(version, filter) ==
    IF filter = Alias("latest-release") THEN TRUE
    ELSE IF filter = Alias("latest-stable") THEN mdb_version_not_rc(version)
    ELSE IF filter = Alias("rapid") THEN mdb_version_rapid(version)
    ELSE IF filter = NullStr THEN TRUE
    ELSE version = filter \/ like_pattern(version, filter)

\* The four "(:x IS NULL OR x=:x)" of the WHERE clause.
attributes_match(row, f) ==
    /\ f.component = NULL \/ row.key = f.component
    /\ f.target = NULL \/ row.target = f.target
    /\ f.arch = NULL \/ row.arch = f.arch
    /\ f.edition = NULL \/ row.edition = f.edition

where_clause(row, f) == attributes_match(row, f) /\ version_matches(row.version, f.version)

\* ORDER BY version COLLATE mdb_version DESC: the rows of seq with the
\* greatest version first; rows of equal version keep their table order.
table_order(seq) == seq

RECURSIVE order_by_version_desc(_)
order_by_version_desc(seq) ==
    IF seq = <<>>
    THEN <<>>
    ELSE LET top == CHOOSE i \in 1..Len(seq) :
                      /\ \A j \in 1..Len(seq) :
                            collate_mdb_version(seq[j].version, seq[i].version) <= 0
                      /\ \A j \in 1..(i - 1) :
                            collate_mdb_version(seq[j].version, seq[i].version) < 0
             rest == [j \in 1..(Len(seq) - 1) |-> IF j < top THEN seq[j] ELSE seq[j + 1]]
         IN  <<seq[top]>> \o order_by_version_desc(rest)

\* The rows of seq that satisfy test, in the order of seq.
RECURSIVE select_rows(_, _, _, _)
select_rows(cat, f, k, acc) ==
    IF k > Len(cat.components)
    THEN acc
    ELSE LET row == joined_row(cat, cat.components[k])
         IN  select_rows(cat, f, k + 1,
                         IF where_clause(row, f) THEN Append(acc, row) ELSE acc)

iter_available(cat, f) == order_by_version_desc(select_rows(cat, f, 1, <<>>))

QueryVersions ==
    {NullStr, Alias("latest-release"), Alias("latest-stable"), Alias("rapid"),
     V_6_0_6, MajorMinorStr(6, 0)}
QueryTargets == {NULL, "rhel8", "windows"}
QueryEditions == {NULL, "enterprise"}
QueryComponents == {NULL, "archive", "crypt_shared"}

\* The call of import_json_data has returned or raised; its locals are gone.
ImportEnds ==
    /\ imp.pc \in {"raised", "exited", "committed"}
    /\ imp' = IdleImport
    /\ UNCHANGED <<db, tx, generation, query, rows>>
    /\ UNCHANGED others_catalog

\* iter_available on the committed catalog; without the tables the SELECT
\* raises.
Query ==
    /\ imp.pc = "idle"
    /\ ~query.asked
    /\ \E version \in QueryVersions, target \in QueryTargets,
          edition \in QueryEditions, comp \in QueryComponents :
         LET f == [asked |-> TRUE, failed |-> ~db.exists, version |-> version,
                   target |-> target, arch |-> NULL, edition |-> edition,
                   component |-> comp]
         IN  /\ query' = f
             /\ rows' = IF db.exists THEN iter_available(db, f) ELSE <<>>
    /\ UNCHANGED <<db, tx, imp, generation>>
    /\ UNCHANGED others_catalog

\* The rows of the query have been consumed.
QueryEnds ==
    /\ query.asked
    /\ query' = NoQuery
    /\ rows' = <<>>
    /\ UNCHANGED <<db, tx, imp, generation>>
    /\ UNCHANGED others_catalog

NextCatalog ==
    \/ ImportBegin
    \/ ImportVersion
    \/ ImportVersionRaises
    \/ ImportNoVersions
    \/ ImportExits
    \/ ImportCommits
    \/ ImportEnds
    \/ Query
    \/ QueryEnds

SpecCatalog == InitCatalog /\ [][NextCatalog]_vars

\* The tables a complete import of the version list builds.
RECURSIVE CompleteCatalog(_, _, _)
CompleteCatalog(cat, manifest, i) ==
    IF i > Len(manifest)
    THEN cat
    ELSE CompleteCatalog(import_version(cat, manifest[i]).cat, manifest, i + 1)

CatalogOf(gen) ==
    IF gen.any THEN CompleteCatalog(EmptyCatalog, gen.manifest, 1) ELSE NoCatalog

\* C1: after any sequence of imports, each completing or failing part-way
\* (KeyError, TypeError, the VALIDATE_DISTROS exit), the committed catalog is
\* the complete catalog of the last import that committed: during an import
\* and after a failed one it is the catalog from before the import, after a
\* commit it is the complete catalog of the new manifest.
C1_CatalogAtomic ==
    /\ db = CatalogOf(generation)
    /\ imp.pc \in {"rows", "raised", "exited"} => db = imp.before
    /\ imp.pc = "committed" =>
          /\ generation = [any |-> TRUE, manifest |-> imp.manifest]
          /\ db.exists
          /\ Len(db.versions) = Len(imp.manifest)

C1_Witness ==
    /\ imp.pc = "raised" /\ imp.written > 2
    /\ db = imp.before /\ db.exists /\ Len(db.versions) > 0

RowSet(seq) == {seq[i] : i \in 1..Len(seq)}

\* C10: a query with version alias latest-stable returns exactly the
\* components matching the other filters whose version has no pre-release
\* stage tag: untagged versions are in, alpha/beta/rc versions are out.
C10_LatestStable ==
    (query.asked /\ ~query.failed /\ query.version = Alias("latest-stable")) =>
        RowSet(rows) =
            {joined_row(db, db.components[k]) : k \in
                {k \in 1..Len(db.components) :
                    /\ attributes_match(joined_row(db, db.components[k]), query)
                    /\ StageOf(joined_row(db, db.components[k]).version) = "stable"}}

\* The catalog tuples that pass the filters f: a filter that is absent
\* constrains nothing, a target, arch, edition or component filter that is
\* present is an exact match, and the version filter is the one of the query.
ExactFilters(row, f) ==
    /\ (f.target # NULL => row.target = f.target)
    /\ (f.arch # NULL => row.arch = f.arch)
    /\ (f.edition # NULL => row.edition = f.edition)
    /\ (f.component # NULL => row.key = f.component)
    /\ version_matches(row.version, f.version)

Selected(cat, f) ==
    {k \in 1..Len(cat.components) : ExactFilters(joined_row(cat, cat.components[k]), f)}

\* C11: iter_available yields exactly the catalog tuples that satisfy every
\* supplied filter, one per matching component, and no yielded tuple has a
\* version greater than that of a tuple yielded before it.
C11_FilteredDescending ==
    (query.asked /\ ~query.failed) =>
        /\ RowSet(rows) = {joined_row(db, db.components[k]) : k \in Selected(db, query)}
        /\ Len(rows) = Cardinality(Selected(db, query))
        /\ \A i \in 1..Len(rows) : \A j \in (i + 1)..Len(rows) :
              collate_mdb_version(rows[j].version, rows[i].version) <= 0

C11_Witness ==
    /\ query.asked /\ ~query.failed
    /\ query.target = "windows" /\ query.component = "archive"
    /\ query.version = NullStr
    /\ Len(rows) = 2 /\ Len(db.components) > 2
    /\ db.versions[1].version = V_6_0_6
    /\ rows[1].version = V_7_0_0_rc1 /\ rows[2].version = V_6_0_6

(***************************************************************************)
(* _test_pattern.  A path and a pattern are sequences of segments (the     *)
(* parts of a PurePath); a segment is a sequence of characters.  A pattern *)
(* of None and the empty pattern are both the empty sequence.  The         *)
(* patterns contain no bracket expression.                                 *)
(***************************************************************************)
\* The longest path and the longest pattern, in segments.
MaxPathLen == 3
MaxPatternLen == 2

S_bin == <<"b", "i", "n">>
S_lib == <<"l", "i", "b">>
S_sub == <<"s", "u", "b">>
S_mongod == <<"m", "o", "n", "g", "o", "d">>
S_mongod_exe == S_mongod \o <<".", "e", "x", "e">>
P_star == <<"*">>
P_starstar == <<"*", "*">>
P_star_exe == <<"*", ".", "e", "x", "e">>
P_q_in == <<"?", "i", "n">>

PathSegments == {S_bin, S_lib, S_sub, S_mongod, S_mongod_exe}
PatternSegments == {S_bin, S_mongod, P_star, P_starstar, P_star_exe, P_q_in}

SeqsUpTo(set, n) == UNION {[1..k -> set] : k \in 0..n}

\* fnmatch(name, pat) for one segment: "*" matches any run of characters,
\* "?" any one character, every other character itself.
RECURSIVE fnmatch(_, _)
fnmatch(name, pat) ==
    IF pat = <<>>
    THEN name = <<>>
    ELSE IF Head(pat) = "*"
    THEN \E i \in 0..Len(name) : fnmatch(SubSeq(name, i + 1, Len(name)), Tail(pat))
    ELSE IF name = <<>>
    THEN FALSE
    ELSE IF Head(pat) = "?"
    THEN fnmatch(Tail(name), Tail(pat))
    ELSE Head(name) = Head(pat) /\ fnmatch(Tail(name), Tail(pat))

\* tails = (path_parts[i:] for i in range(len(path_parts))): the values of i
suffix_starts_first(path_parts) == {0}

suffix_starts(path_parts) == 0..(Len(path_parts) - 1)

\* if not pattern_parts: return True, whatever is left of the path.
exhausted_needs_end(path_parts) == path_parts = <<>>

exhausted_matches(path_parts) == TRUE

RECURSIVE test_pattern(_, _)
test_pattern(path, pattern) ==
    IF pattern = <<>>
    THEN exhausted_matches(path)
    ELSE IF path = <<>>
    THEN FALSE
    ELSE IF Head(pattern) = P_starstar
    THEN \E i \in suffix_starts(path) :
            test_pattern(SubSeq(path, i + 1, Len(path)), Tail(pattern))
    ELSE IF ~fnmatch(Head(path), Head(pattern))
    THEN FALSE
    ELSE test_pattern(Tail(path), Tail(pattern))

InitPattern ==
    /\ tpath \in SeqsUpTo(PathSegments, MaxPathLen)
    /\ tpattern \in SeqsUpTo(PatternSegments, MaxPatternLen)
    /\ matched = <<>>
    /\ IdleVersion
    /\ IdleRetrier
    /\ IdleRun
    /\ IdleCache
    /\ IdleCatalog
    /\ IdleExtract
    /\ IdleResolve
    /\ IdleLoop
    /\ IdleStore

TestPattern ==
    /\ matched = <<>>
    /\ matched' = <<test_pattern(tpath, tpattern)>>
    /\ UNCHANGED <<tpath, tpattern>>
    /\ UNCHANGED others_pattern

NextPattern == TestPattern

SpecPattern == InitPattern /\ [][NextPattern]_vars

\* The segment-wise definition of a match.
RECURSIVE SegmentwiseMatch(_, _)
SegmentwiseMatch(path, pattern) ==
    IF pattern = <<>>
    THEN TRUE
    ELSE IF path = <<>>
    THEN FALSE
    ELSE IF Head(pattern) = <<"*", "*">>
    THEN \E k \in 0..Len(path) :
            SegmentwiseMatch(SubSeq(path, k + 1, Len(path)), Tail(pattern))
    ELSE /\ fnmatch(Head(path), Head(pattern))
         /\ SegmentwiseMatch(Tail(path), Tail(pattern))

\* C12: _test_pattern is the segment-wise recursive match: an empty pattern
\* matches, a non-empty pattern does not match the empty path, a leading "**"
\* matches iff some suffix of the path matches the rest of the pattern, and
\* otherwise the first segments match as file-name globs and the rests match;
\* "bin/**" matches "bin/sub/mongod" and "bin/mongod" but not "lib/bin/mongod",
\* "*.exe" matches "mongod.exe" but not "bin/mongod.exe".
C12_SegmentwiseMatch ==
    matched # <<>> =>
        /\ matched[1] = SegmentwiseMatch(tpath, tpattern)
        /\ tpattern = <<>> => matched[1]
        /\ (tpattern # <<>> /\ tpath = <<>>) => ~matched[1]
        /\ tpattern = <<S_bin, P_starstar>> =>
              /\ tpath = <<S_bin, S_sub, S_mongod>> => matched[1]
              /\ tpath = <<S_bin, S_mongod>> => matched[1]
              /\ tpath = <<S_lib, S_bin, S_mongod>> => ~matched[1]
        /\ tpattern = <<P_star_exe>> =>
              /\ tpath = <<S_mongod_exe>> => matched[1]
              /\ tpath = <<S_bin, S_mongod_exe>> => ~matched[1]

C12_Witness ==
    /\ matched = <<TRUE>>
    /\ tpattern = <<P_starstar, S_mongod>>
    /\ tpath = <<S_bin, S_sub, S_mongod>>

(***************************************************************************)
(* Extraction: _expand_archive, _expand_tgz / _expand_zip and              *)
(* _maybe_extract_member, then the exit of main.  The archive is its list  *)
(* of members; the tree under the destination maps a path relative to the  *)
(* destination (the empty path is the destination itself) to "absent",     *)
(* "dir" or the content of a file.  One member is one step.                *)
(***************************************************************************)
\* The most members of an archive, the largest --strip-path-components, and
\* the most runs of main against one destination.
MaxMembers == 2
MaxStrip == 2
MaxRuns == 2

DirMember(path) == [path |-> path, is_dir |-> TRUE, content |-> "dir"]
FileMember(path, content) == [path |-> path, is_dir |-> FALSE, content |-> content]

M_bin == DirMember(<<S_bin>>)
M_bin_mongod_exe == FileMember(<<S_bin, S_mongod_exe>>, "c1")
M_lib_mongod_exe == FileMember(<<S_lib, S_mongod_exe>>, "c2")
M_sub_mongod_exe == DirMember(<<S_sub, S_mongod_exe>>)
M_bin_mongod == FileMember(<<S_bin, S_mongod>>, "c3")

Members == {M_bin, M_bin_mongod_exe, M_lib_mongod_exe, M_sub_mongod_exe, M_bin_mongod}
Archives == SeqsUpTo(Members, MaxMembers)

\* --only
OnlyPatterns == {<<>>, <<S_bin, P_star>>, <<P_star_exe>>, <<S_mongod>>}

\* Every path a member can be written to, with its parents.
DestPaths ==
    {<<>>} \cup UNION {{SubSeq(m.path, i, j) : i \in 1..Len(m.path), j \in 1..Len(m.path)}
                          : m \in Members}

EmptyTree == [p \in DestPaths |-> "absent"]
InitialTrees ==
    {EmptyTree,
     [EmptyTree EXCEPT ![<<>>] = "dir"],
     [EmptyTree EXCEPT ![<<>>] = "dir", ![<<S_mongod_exe>>] = "old"]}

parent(path) == SubSeq(path, 1, Len(path) - 1)

\* _mkdir(dirpath): nothing for a directory; else the parents first, then
\* dirpath.mkdir(), whose FileExistsError is swallowed and whose
\* NotADirectoryError (the parent is a file) is not.  The parent of the
\* destination exists.
RECURSIVE mkdir(_, _)
mkdir(t, dirpath) ==
    IF t[dirpath] = "dir"
    THEN [ok |-> TRUE, tree |-> t]
    ELSE IF dirpath = <<>>
    THEN [ok |-> TRUE, tree |-> IF t[dirpath] = "absent" THEN [t EXCEPT ![dirpath] = "dir"] ELSE t]
    ELSE LET r == mkdir(t, parent(dirpath))
         IN  IF ~r.ok THEN r
             ELSE IF r.tree[parent(dirpath)] # "dir" THEN [ok |-> FALSE, tree |-> r.tree]
             ELSE IF r.tree[dirpath] = "absent"
             THEN [ok |-> TRUE, tree |-> [r.tree EXCEPT ![dirpath] = "dir"]]
             ELSE [ok |-> TRUE, tree |-> r.tree]

\* if len(relpath.parts) <= strip: return 0
strip_excludes_shorter(parts, n) == Len(parts) < n

strip_excludes(parts, n) == Len(parts) <= n

\* dest.open("wb") on what is at dest: a directory raises.
open_exclusive(at_dest) == at_dest = "absent"

open_wb(at_dest) == at_dest # "dir"

\* if test: return 1
test_ignored(test) == FALSE

test_returns(test) == test

NoDest == <<"none">>

\* The path handed to _test_pattern is relpath, the member's path as it is
\* in the archive; stripped = relpath.parts[strip:] is computed after the
\* test and only names the destination.
tested_stripped(relpath, n) == SubSeq(relpath, n + 1, Len(relpath))

tested_relpath(relpath, n) == relpath

\* _maybe_extract_member: the count it returns (n), whether it returned (ok),
\* the tree it leaves and the dest it formed.
maybe_extract_member(t, mem, pattern, n, test) ==
    IF strip_excludes(mem.path, n)
    THEN [n |-> 0, ok |-> TRUE, tree |-> t, dest |-> NoDest]
    ELSE IF ~test_pattern(tested_relpath(mem.path, n), pattern)
    THEN [n |-> 0, ok |-> TRUE, tree |-> t, dest |-> NoDest]
    ELSE LET dest == SubSeq(mem.path, n + 1, Len(mem.path))
         IN  IF test_returns(test)
             THEN [n |-> 1, ok |-> TRUE, tree |-> t, dest |-> dest]
             ELSE IF mem.is_dir
             THEN LET r == mkdir(t, dest)
                  IN  [n |-> IF r.ok THEN 1 ELSE 0, ok |-> r.ok, tree |-> r.tree, dest |-> dest]
             ELSE LET r == mkdir(t, parent(dest))
                  IN  IF ~r.ok \/ r.tree[parent(dest)] # "dir" \/ ~open_wb(r.tree[dest])
                      THEN [n |-> 0, ok |-> FALSE, tree |-> r.tree, dest |-> dest]
                      ELSE [n |-> 1, ok |-> TRUE,
                            tree |-> [r.tree EXCEPT ![dest] = mem.content], dest |-> dest]

NoMember == [path |-> <<>>, is_dir |-> FALSE, content |-> ""]
NoLast == [done |-> FALSE, member |-> NoMember, n |-> 0, ok |-> TRUE, dest |-> NoDest,
           tree_before |-> <<>>]
IdleXrun ==
    [pc |-> "idle", test |-> FALSE, idx |-> 0, n_extracted |-> 0, result |-> "",
     status |-> 0, before |-> <<>>, last |-> NoLast]

InitExtract ==
    /\ ar \in Archives
    /\ only \in OnlyPatterns
    /\ strip \in 0..MaxStrip
    /\ xtool \in {"mongodl", "mongosh"}
    /\ empty_is_error \in BOOLEAN
    \* mongosh_dl has no --empty-is-error
    /\ xtool = "mongosh" => ~empty_is_error
    /\ tree \in InitialTrees
    /\ xrun = IdleXrun
    /\ history = <<>>
    /\ IdleVersion
    /\ IdleRetrier
    /\ IdleRun
    /\ IdleCache
    /\ IdleCatalog
    /\ IdlePattern
    /\ IdleResolve
    /\ IdleLoop
    /\ IdleStore

\* main up to _expand_archive: --test is read from the command line.
BeginRun ==
    /\ xrun.pc = "idle"
    /\ Len(history) < MaxRuns
    /\ \E test \in BOOLEAN :
         xrun' = [IdleXrun EXCEPT !.pc = "members", !.test = test, !.idx = 1,
                                  !.before = tree]
    /\ UNCHANGED <<ar, only, strip, xtool, empty_is_error, tree, history>>
    /\ UNCHANGED others_extract

\* One pass of the loop of _expand_tgz / _expand_zip:
\* n_extracted += _maybe_extract_member(...); an exception leaves the loop.
ExtractMember ==
    /\ xrun.pc = "members" /\ xrun.idx <= Len(ar)
    /\ LET r == maybe_extract_member(tree, ar[xrun.idx], only, strip, xrun.test)
       IN  /\ tree' = r.tree
           /\ xrun' = [xrun EXCEPT
                         !.pc = IF r.ok THEN "members" ELSE "raised",
                         !.idx = @ + 1,
                         !.n_extracted = @ + r.n,
                         !.status = IF r.ok THEN 0 ELSE 1,
                         !.last = [done |-> TRUE, member |-> ar[xrun.idx], n |-> r.n,
                                   ok |-> r.ok, dest |-> r.dest, tree_before |-> tree]]
    /\ UNCHANGED <<ar, only, strip, xtool, empty_is_error, history>>
    /\ UNCHANGED others_extract

\* _expand_archive after the loop: ExpandResult.Empty for a count of zero.
expand_result(n_extracted) == IF n_extracted = 0 THEN "Empty" ELSE "Okay"

ExpandEnds ==
    /\ xrun.pc = "members" /\ xrun.idx > Len(ar)
    /\ xrun' = [xrun EXCEPT !.pc = "expanded", !.result = expand_result(xrun.n_extracted)]
    /\ UNCHANGED <<ar, only, strip, xtool, empty_is_error, tree, history>>
    /\ UNCHANGED others_extract

\* The end of main: mongodl exits 1 for Empty with --empty-is-error,
\* mongosh_dl exits 1 for Empty.
exit_status(t, result, flag) ==
    IF t = "mongodl"
    THEN IF result = "Empty" /\ flag THEN 1 ELSE 0
    ELSE IF result = "Empty" THEN 1 ELSE 0

MainExit ==
    /\ xrun.pc = "expanded"
    /\ xrun' = [xrun EXCEPT !.pc = "exited",
                            !.status = exit_status(xtool, xrun.result, empty_is_error)]
    /\ UNCHANGED <<ar, only, strip, xtool, empty_is_error, tree, history>>
    /\ UNCHANGED others_extract

\* The process has ended, by sys.exit, by returning or by the exception.
RunEnds ==
    /\ xrun.pc \in {"exited", "raised"}
    /\ history' = Append(history,
                         [test |-> xrun.test, ok |-> xrun.pc = "exited",
                          n_extracted |-> xrun.n_extracted, result |-> xrun.result,
                          status |-> xrun.status, before |-> xrun.before, after |-> tree])
    /\ xrun' = IdleXrun
    /\ UNCHANGED <<ar, only, strip, xtool, empty_is_error, tree>>
    /\ UNCHANGED others_extract

NextExtract ==
    \/ BeginRun
    \/ ExtractMember
    \/ ExpandEnds
    \/ MainExit
    \/ RunEnds

SpecExtract == InitExtract /\ [][NextExtract]_vars

Stripped(path, n) == SubSeq(path, n + 1, Len(path))

\* C34: matching is closed under path extension: when _test_pattern holds
\* for a path it holds for every path that continues it, for the exhausted
\* pattern matches whatever remains; "bin" selects every path below bin/.
C34_ClosedUnderExtension ==
    matched # <<>> =>
        /\ \A k \in 0..(Len(tpath) - 1) :
              test_pattern(SubSeq(tpath, 1, k), tpattern) => matched[1]
        /\ (tpattern = <<S_bin>> /\ Len(tpath) >= 1 /\ tpath[1] = S_bin) => matched[1]

C34_Witness ==
    /\ matched = <<TRUE>>
    /\ tpattern = <<S_bin>> /\ tpath = <<S_bin, S_sub, S_mongod>>
    /\ test_pattern(<<S_bin>>, tpattern)
    /\ test_pattern(<<S_bin, S_sub>>, tpattern)

C28_PatternOnUnstrippedPath ==
    xrun.last.done =>
        LET mem == xrun.last.member
        IN  /\ (Len(mem.path) > strip /\ xrun.last.ok) =>
                  (xrun.last.n = 1 <=> SegmentwiseMatch(mem.path, only))
            /\ xrun.last.n = 1 => xrun.last.dest = Stripped(mem.path, strip)
            /\ (mem = M_bin_mongod /\ strip = 1) =>
                  /\ (only = <<S_bin, P_star>> /\ xrun.last.ok) =>
                        (xrun.last.n = 1 /\ xrun.last.dest = <<S_mongod>>)
                  /\ (only = <<S_bin, P_star>> /\ xrun.last.ok /\ ~xrun.test) =>
                        tree[<<S_mongod>>] = "c3"
                  /\ only = <<S_mongod>> =>
                        (xrun.last.n = 0 /\ tree = xrun.last.tree_before)

C28_Witness ==
    /\ xrun.last.done /\ xrun.last.member = M_bin_mongod
    /\ strip = 1 /\ only = <<S_bin, P_star>> /\ ~xrun.test
    /\ xrun.last.n = 1 /\ xrun.last.dest = <<S_mongod>>
    /\ tree[<<S_mongod>>] = "c3"

\* C14: of two real extractions of the archive into the destination with the
\* same --only and strip, the first having succeeded, the later one succeeds,
\* returns the same count and leaves the same tree.
C14_Idempotent ==
    \A i \in 1..Len(history) : \A j \in 1..Len(history) :
        (i < j /\ ~history[i].test /\ ~history[j].test /\ history[i].ok) =>
            /\ history[j].ok
            /\ history[j].n_extracted = history[i].n_extracted
            /\ history[j].after = history[i].after

C14_Witness ==
    /\ Len(history) = 2 /\ ~history[1].test /\ ~history[2].test
    /\ history[1].ok /\ history[2].ok
    /\ ar = <<M_bin_mongod_exe, M_lib_mongod_exe>> /\ strip = 1
    /\ history[1].n_extracted = 2 /\ history[2].n_extracted = 2
    /\ history[1].before # history[1].after
    /\ history[2].after = history[1].after

\* C15: an extraction with test=True leaves the tree under the destination as
\* it was, at every step, and returns the count that a real extraction of the
\* archive with the same --only and strip returns.
C15_DryRun ==
    /\ (xrun.pc # "idle" /\ xrun.test) => tree = xrun.before
    /\ \A i \in 1..Len(history) :
          history[i].test =>
              /\ history[i].ok
              /\ history[i].after = history[i].before
              /\ \A j \in 1..Len(history) :
                    (~history[j].test /\ history[j].ok)
                        => history[j].n_extracted = history[i].n_extracted

C15_Witness ==
    /\ Len(history) = 2 /\ history[1].test /\ ~history[2].test /\ history[2].ok
    /\ history[1].n_extracted = 2 /\ history[2].n_extracted = 2
    /\ history[1].after = history[1].before
    /\ history[2].after # history[2].before

\* C16: a run in which no member passed the filters exits with status zero
\* unless --empty-is-error was given, and with that flag it exits non-zero.
C16_EmptyIsErrorOnlyWithFlag ==
    \A i \in 1..Len(history) :
        (history[i].ok /\ history[i].result = "Empty") =>
            (history[i].status # 0 <=> empty_is_error)

\* C21: in every committed catalog each Download row references an existing
\* Version row, each Component row references an existing Download row, and
\* no two Component rows have the same (key, download_id).
C21_ReferencesResolve ==
    /\ \A i \in 1..Len(db.downloads) :
          \E j \in 1..Len(db.versions) :
              db.versions[j].version_id = db.downloads[i].version_id
    /\ \A i \in 1..Len(db.components) :
          \E j \in 1..Len(db.downloads) :
              db.downloads[j].download_id = db.components[i].download_id
    /\ \A i \in 1..Len(db.components) : \A j \in 1..Len(db.components) :
          (/\ db.components[i].key = db.components[j].key
           /\ db.components[i].download_id = db.components[j].download_id) => i = j

C21_Witness ==
    /\ imp.pc = "committed"
    /\ Len(db.versions) = 2 /\ Len(db.downloads) > 2
    /\ \E i \in 1..Len(db.components) : \E j \in 1..Len(db.components) :
          /\ i # j
          /\ db.components[i].download_id = db.components[j].download_id
    /\ \E i \in 1..Len(db.components) : \E j \in 1..Len(db.components) :
          /\ db.components[i].key = db.components[j].key
          /\ db.components[i].download_id # db.components[j].download_id

(***************************************************************************)
(* version_tup on the strings a manifest or a command line may hold: the   *)
(* valid version strings and strings that are not versions.                *)
(***************************************************************************)
\* Strings that are not version strings: text after a valid string, a stage
\* tag without a number, a fourth number, an unknown stage tag, text before
\* the version, a single number, the empty string.
MalformedVersions ==
    {v \o <<Word("x")>> : v \in GeneratedVersions}
    \cup {PatchStr(x[1], x[2], x[3]) \o <<Dash, Word(x[4])>> :
            x \in VerNums \X VerNums \X VerNums \X StageTags}
    \cup {PatchStr(x[1], x[2], x[3]) \o <<Dot, Num(0)>> :
            x \in VerNums \X VerNums \X VerNums}
    \cup {TaggedStr(x[1], x[2], x[3], "foo", 1) : x \in VerNums \X VerNums \X VerNums}
    \cup {<<Word("v")>> \o PatchStr(x[1], x[2], x[3]) :
            x \in VerNums \X VerNums \X VerNums}
    \cup {<<Num(a)>> : a \in VerNums}
    \cup {<<>>}

InitParse ==
    /\ left \in ValidVersions \cup MalformedVersions
    /\ right = <<>>
    /\ cmp = <<>>
    /\ IdleRetrier
    /\ IdleRun
    /\ IdleCache
    /\ IdleCatalog
    /\ IdlePattern
    /\ IdleExtract
    /\ IdleResolve
    /\ IdleLoop
    /\ IdleStore

\* version_tup(version)
Parse ==
    /\ cmp = <<>>
    /\ cmp' = <<version_tup(left)>>
    /\ UNCHANGED <<left, right>>
    /\ UNCHANGED others_version

NextParse == Parse

SpecParse == InitParse /\ [][NextParse]_vars

\* MAJOR.MINOR, MAJOR.MINOR.PATCH, or MAJOR.MINOR.PATCH followed by -alpha<n>,
\* -beta<n> or -rc<n>, and nothing else.
WellFormed(s) ==
    \/ /\ Len(s) = 3
       /\ s[1].k = "num" /\ s[2].k = "dot" /\ s[3].k = "num"
    \/ /\ Len(s) \in {5, 8}
       /\ s[1].k = "num" /\ s[2].k = "dot" /\ s[3].k = "num"
       /\ s[4].k = "dot" /\ s[5].k = "num"
       /\ Len(s) = 8 =>
             (s[6].k = "dash" /\ s[7].k = "word" /\ s[7].w \in StageTags /\ s[8].k = "num")

\* C29: version_tup fails on every string that is not exactly MAJOR.MINOR or
\* MAJOR.MINOR.PATCH with an optional -alpha<n>, -beta<n> or -rc<n>: it is
\* never parsed as some version, also not a string with text after a valid
\* prefix or with a stage tag without its number.
C29_MalformedFailsToParse ==
    (cmp # <<>> /\ ~WellFormed(left)) => cmp[1] = ParseError

\* C32: the import of a manifest whose version list is empty succeeds and
\* leaves the empty catalog: the tables exist and hold no row, and every
\* query returns no tuple.
C32_EmptyManifestImports ==
    /\ (imp.pc \in {"raised", "exited", "committed"} /\ imp.manifest = <<>>) =>
          (imp.pc = "committed" /\ db = EmptyCatalog)
    /\ (query.asked /\ generation = [any |-> TRUE, manifest |-> <<>>]) =>
          (~query.failed /\ rows = <<>>)

\* The targets of a manifest, after the RHEL normalisation, that are neither
\* a distro target nor one of the names that are not distros.
MissingTargets(manifest) ==
    {t \in UNION {{normalize_target(dl_get(manifest[i].downloads[j], "target")) :
                      j \in 1..Len(manifest[i].downloads)} : i \in 1..Len(manifest)} :
        t \notin DistroTargets /\ t \notin TARGETS_THAT_ARE_NOT_DISTROS}

\* C20: an import that reaches its end reports every missing target of the
\* manifest, whichever version it occurs in, and with VALIDATE_DISTROS=1 an
\* import with a missing target exits instead of committing.
C20_AllMissingReported ==
    imp.pc \in {"committed", "exited"} =>
        /\ imp.missing = MissingTargets(imp.manifest)
        /\ (imp.validate /\ MissingTargets(imp.manifest) # {}) => imp.pc = "exited"

(***************************************************************************)
(* Resolution of a published build: _dl_component up to print(dl_url),     *)
(* with _published_build_url on a committed catalog.  In a component's     *)
(* data "none" stands for a key that is absent and "null" for a JSON null. *)
(***************************************************************************)
DL_macos ==
    <<StrItem("arch", "x86_64"), StrItem("edition", "enterprise"),
      StrItem("target", "macos"),
      DictItem("archive", "U8", "none", "none"),
      DictItem("crypt_shared", "U9", "S9", "none")>>
DL_windows_null_sha ==
    <<StrItem("arch", "x86_64"), StrItem("edition", "enterprise"),
      StrItem("target", "windows"),
      DictItem("archive", "U10", "null", "D10")>>

VE_macos_rc == [version |-> V_7_0_0_rc1, complete |-> TRUE,
                downloads |-> <<DL_macos, DL_windows_null_sha>>]

ResolveManifests == {<<VE_stable>>, <<VE_macos_rc>>, <<VE_stable, VE_macos_rc>>}

RequestVersions == {Alias("latest-release"), V_6_0_6, V_7_0_0_rc1}
RequestTargets == {"rhel8", "windows", "osx", "macos"}
RequestComponents == {"archive", "crypt_shared", "archive-debug"}

\* _published_build_url: the ValueError of a lookup without a row is "miss",
\* the KeyError of data[value] or data["sha256"] is "keyerror".
published_build_url(cat, version, target, arch, edition, comp) ==
    LET value == IF comp = "archive-debug" THEN "debug_symbols" ELSE "url"
        f == [version |-> version, target |-> target, arch |-> arch,
              edition |-> edition,
              component |-> IF comp = "archive-debug" THEN "archive" ELSE comp]
        matching == iter_available(cat, f)
    IN  IF matching = <<>>
        THEN [kind |-> "miss", url |-> "none", sha256 |-> "none"]
        ELSE LET data == matching[1].data_json
             IN  IF data[value] = "none" \/ data.sha256 = "none"
                 THEN [kind |-> "keyerror", url |-> "none", sha256 |-> "none"]
                 ELSE [kind |-> "ok", url |-> data[value], sha256 |-> data.sha256]

\* except ValueError: if component == "crypt_shared" and version != "latest-release"
fallback_for_crypt_shared(comp, version) == comp = "crypt_shared"

fallback_applies(comp, version) ==
    comp = "crypt_shared" /\ version # Alias("latest-release")

IdleRes ==
    [pc |-> "start", version |-> <<>>, target |-> "", lookups |-> <<>>, warned |-> FALSE,
     url |-> "none", sha256 |-> "none", error |-> "", verifies |-> FALSE]

InitResolve ==
    /\ rcat \in {CompleteCatalog(EmptyCatalog, m, 1) : m \in ResolveManifests}
    /\ req \in [version : RequestVersions, target : RequestTargets, arch : {"x86_64"},
                edition : {"enterprise"}, component : RequestComponents]
    /\ res = [IdleRes EXCEPT !.version = req.version, !.target = req.target]
    /\ IdleVersion
    /\ IdleRetrier
    /\ IdleRun
    /\ IdleCache
    /\ IdleCatalog
    /\ IdlePattern
    /\ IdleExtract
    /\ IdleLoop
    /\ IdleStore

Lookup(r, version, target) ==
    [version |-> version, target |-> target, component |-> req.component, kind |-> r.kind]

\* The first _published_build_url and, when it raised ValueError, the handler.
FirstLookup ==
    /\ res.pc = "start"
    /\ LET r == published_build_url(rcat, res.version, res.target, req.arch, req.edition,
                                    req.component)
           looked == Append(res.lookups, Lookup(r, res.version, res.target))
       IN  res' =
             IF r.kind = "ok"
             THEN [res EXCEPT !.pc = "resolved", !.lookups = looked,
                              !.url = r.url, !.sha256 = r.sha256]
             ELSE IF r.kind = "keyerror"
             THEN [res EXCEPT !.pc = "raised", !.lookups = looked, !.error = "KeyError"]
             ELSE IF fallback_applies(req.component, res.version)
             THEN [res EXCEPT !.pc = "fallback", !.lookups = looked, !.warned = TRUE,
                              !.version = Alias("latest-release"),
                              !.target = IF res.target = "osx" THEN "macos" ELSE res.target]
             ELSE [res EXCEPT !.pc = "raised", !.lookups = looked, !.error = "ValueError"]
    /\ UNCHANGED <<rcat, req>>
    /\ UNCHANGED others_resolve

\* The _published_build_url after the handler; it is outside the try.
SecondLookup ==
    /\ res.pc = "fallback"
    /\ LET r == published_build_url(rcat, res.version, res.target, req.arch, req.edition,
                                    req.component)
           looked == Append(res.lookups, Lookup(r, res.version, res.target))
       IN  res' =
             IF r.kind = "ok"
             THEN [res EXCEPT !.pc = "resolved", !.lookups = looked,
                              !.url = r.url, !.sha256 = r.sha256]
             ELSE [res EXCEPT !.pc = "raised", !.lookups = looked,
                              !.error = IF r.kind = "miss" THEN "ValueError" ELSE "KeyError"]
    /\ UNCHANGED <<rcat, req>>
    /\ UNCHANGED others_resolve

\* The download block: if sha256 is not None and not _check_shasum256(...)
Proceed ==
    /\ res.pc = "resolved"
    /\ res' = [res EXCEPT !.pc = "downloading", !.verifies = (res.sha256 # "null")]
    /\ UNCHANGED <<rcat, req>>
    /\ UNCHANGED others_resolve

NextResolve ==
    \/ FirstLookup
    \/ SecondLookup
    \/ Proceed

SpecResolve == InitResolve /\ [][NextResolve]_vars

\* C17: a lookup miss is recovered only for crypt_shared at a version other
\* than latest-release: then, after a warning, exactly one further lookup is
\* made, at latest-release and with target osx replaced by macos, and its miss
\* is fatal; every other miss is fatal with no second lookup.
C17_OneFallbackForCryptShared ==
    LET n == Len(res.lookups)
        recoverable == req.component = "crypt_shared" /\ req.version # Alias("latest-release")
    IN  /\ n <= 2
        /\ res.warned <=> (n >= 1 /\ res.lookups[1].kind = "miss" /\ recoverable)
        /\ (n >= 1 /\ res.lookups[1].kind = "miss" /\ ~recoverable) =>
              (n = 1 /\ res.pc = "raised" /\ res.error = "ValueError")
        /\ (n >= 1 /\ res.lookups[1].kind = "miss" /\ recoverable) =>
              (res.pc = "fallback" \/ n = 2)
        /\ n = 2 =>
              /\ res.lookups[1].kind = "miss" /\ recoverable /\ res.warned
              /\ res.lookups[1].version = req.version
              /\ res.lookups[1].target = req.target
              /\ res.lookups[2].version = Alias("latest-release")
              /\ res.lookups[2].target = (IF req.target = "osx" THEN "macos" ELSE req.target)
              /\ res.lookups[2].component = "crypt_shared"
              /\ res.lookups[2].kind = "miss" =>
                    (res.pc = "raised" /\ res.error = "ValueError")

C17_Witness ==
    /\ Len(res.lookups) = 2 /\ res.warned
    /\ req.component = "crypt_shared" /\ req.target = "osx" /\ req.version = V_6_0_6
    /\ res.lookups[2].target = "macos" /\ res.lookups[2].kind = "ok"
    /\ res.pc = "resolved" /\ res.url = "U9"

(***************************************************************************)
(* _dl_component for version "latest" and "latest-build": the URL is built *)
(* by _latest_build_url.  A URL is written as the parts of its file name.  *)
(***************************************************************************)
LatestVersions == {Alias("latest"), Alias("latest-build")}
LatestTargets == {"rhel8", "rhel93", "windows", "macos", "ubuntu2204"}
Branches == {"None", "master", "v7.0"}

\* "rhel" in target
rhel_in_any_target(target) == TRUE

rhel_in_target(target) ==
    target \in {"rhel6", "rhel7", "rhel8", "rhel9"} \cup DOMAIN RhelSixChars

\* re.search(r"rhel[0-9][0-9]", url) on the URLs of the catalog: group(0), or
\* "none" for no match.
RhelInUrl == [U1 |-> "rhel80", D1 |-> "rhel80"]
rhel_search(url) == IF url \in DOMAIN RhelInUrl THEN RhelInUrl[url] ELSE "none"

\* The file name and its base, from the target the infix is taken from.
filename(infix_target, target, arch, edition, comp, branch) ==
    [platform |-> IF target \in {"windows", "win32"} THEN target
                  ELSE IF target = "macos" THEN "osx" ELSE "linux",
     component_name |-> IF comp = "archive" THEN "mongodb"
                        ELSE IF comp = "crypt_shared" THEN "mongo_crypt_shared_v1"
                        ELSE comp,
     typ |-> IF target \in {"windows", "win32", "macos"} THEN target ELSE "linux",
     arch |-> arch,
     ent_infix |-> IF edition = "enterprise" THEN "enterprise-" ELSE "",
     tgt_infix |-> IF infix_target \notin {"windows", "win32", "macos"}
                   THEN infix_target ELSE "",
     br_infix |-> IF branch # "None" /\ branch # "master" THEN branch ELSE "",
     ext |-> IF target = "windows" THEN "zip" ELSE "tgz"]

NoFilename == <<>>

\* _latest_build_url: the lookups it made, and the URL or the exception of
\* the lookup.
latest_build_url(cat, target, arch, edition, comp, branch) ==
    IF rhel_in_target(target)
    THEN LET r == published_build_url(cat, Alias("latest-release"), target, arch,
                                      edition, comp)
             looked == <<[version |-> Alias("latest-release"), target |-> target,
                          component |-> comp, kind |-> r.kind]>>
         IN  IF r.kind # "ok"
             THEN [kind |-> r.kind, lookups |-> looked, url |-> NoFilename]
             ELSE [kind |-> "ok", lookups |-> looked,
                   url |-> filename(IF rhel_search(r.url) # "none"
                                    THEN rhel_search(r.url) ELSE target,
                                    target, arch, edition, comp, branch)]
    ELSE [kind |-> "ok", lookups |-> <<>>,
          url |-> filename(target, target, arch, edition, comp, branch)]

InitLatest ==
    /\ rcat \in {CompleteCatalog(EmptyCatalog, m, 1) : m \in ResolveManifests}
    /\ req \in [version : LatestVersions, target : LatestTargets, arch : {"x86_64"},
                edition : {"enterprise", "base"}, component : RequestComponents,
                branch : Branches]
    /\ res = [pc |-> "start", lookups |-> <<>>, url |-> NoFilename, sha256 |-> "none",
              error |-> "", verifies |-> FALSE]
    /\ IdleVersion
    /\ IdleRetrier
    /\ IdleRun
    /\ IdleCache
    /\ IdleCatalog
    /\ IdlePattern
    /\ IdleExtract
    /\ IdleLoop
    /\ IdleStore

\* if version in ("latest-build", "latest"): dl_url = _latest_build_url(...);
\* sha256 = None.  The call is outside the try of the published lookup.
LatestBuild ==
    /\ res.pc = "start"
    /\ req.version \in LatestVersions
    /\ LET r == latest_build_url(rcat, req.target, req.arch, req.edition,
                                 req.component, req.branch)
       IN  res' =
             IF r.kind = "ok"
             THEN [res EXCEPT !.pc = "resolved", !.lookups = r.lookups,
                              !.url = r.url, !.sha256 = "null"]
             ELSE [res EXCEPT !.pc = "raised", !.lookups = r.lookups,
                              !.error = IF r.kind = "miss" THEN "ValueError"
                                        ELSE "KeyError"]
    /\ UNCHANGED <<rcat, req>>
    /\ UNCHANGED others_resolve

NextLatest ==
    \/ LatestBuild
    \/ Proceed

SpecLatest == InitLatest /\ [][NextLatest]_vars

\* The requested targets whose name contains "rhel".
RhelRequested == {"rhel8", "rhel93"}

\* C25: for version "latest" or "latest-build" the resolved checksum is
\* absent and the download is not verified; no catalog lookup is made for a
\* target without "rhel", and for a target with "rhel" exactly one, at
\* latest-release for the requested target; the URL is the one the naming
\* rules give for the request, the lookup deciding nothing but the target in
\* its target infix.
C25_LatestBuildWithoutChecksum ==
    res.pc # "start" =>
        /\ res.pc \in {"resolved", "downloading"} => res.sha256 = "null"
        /\ res.pc = "downloading" => ~res.verifies
        /\ Len(res.lookups) = (IF req.target \in RhelRequested THEN 1 ELSE 0)
        /\ \A i \in 1..Len(res.lookups) :
              /\ res.lookups[i].version = Alias("latest-release")
              /\ res.lookups[i].target = req.target
        /\ res.pc \in {"resolved", "downloading"} =>
              \E t \in {req.target} \cup {rhel_search(u) : u \in DOMAIN RhelInUrl} :
                  /\ res.url = filename(t, req.target, req.arch, req.edition,
                                        req.component, req.branch)
                  /\ t # req.target => req.target \in RhelRequested

C25_Witness ==
    /\ req.version = Alias("latest") /\ req.target = "rhel8"
    /\ req.component = "archive" /\ req.edition = "enterprise"
    /\ res.pc = "downloading" /\ ~res.verifies /\ res.sha256 = "null"
    /\ Len(res.lookups) = 1 /\ res.lookups[1].kind = "ok"
    /\ res.url.tgt_infix = "rhel80"

\* C27: a lookup at latest-release that resolves returns the URL and the
\* checksum of a catalog entry matching the target, arch, edition and
\* component, and no matching entry has a greater version than that entry.
C27_LatestReleaseIsGreatest ==
    (res.pc \in {"resolved", "downloading"} /\ res.version = Alias("latest-release")) =>
        LET value == IF req.component = "archive-debug" THEN "debug_symbols" ELSE "url"
            f == [version |-> Alias("latest-release"), target |-> res.target,
                  arch |-> req.arch, edition |-> req.edition,
                  component |-> IF req.component = "archive-debug" THEN "archive"
                                ELSE req.component]
            row(k) == joined_row(rcat, rcat.components[k])
        IN  \E k \in Selected(rcat, f) :
                /\ row(k).data_json[value] = res.url
                /\ row(k).data_json.sha256 = res.sha256
                /\ \A j \in Selected(rcat, f) :
                      collate_mdb_version(row(j).version, row(k).version) <= 0

C27_Witness ==
    /\ req.version = Alias("latest-release") /\ req.target = "windows"
    /\ req.component = "archive"
    /\ Len(rcat.versions) = 2 /\ rcat.versions[1].version = V_6_0_6
    /\ res.pc = "resolved" /\ res.url = "U10"
    /\ Len(res.lookups) = 1

\* C33: resolving "archive-debug" looks up the "archive" component and
\* returns its debug-symbols URL, and the checksum that goes with the URL is
\* not the sha256 recorded for the archive itself.
C33_DebugSymbolsNotArchiveChecksum ==
    (req.component = "archive-debug" /\ res.pc \in {"resolved", "downloading"}) =>
        /\ \A i \in 1..Len(res.lookups) : res.lookups[i].component = "archive-debug"
        /\ \E k \in 1..Len(rcat.components) :
              /\ rcat.components[k].key = "archive"
              /\ rcat.components[k].data.debug_symbols = res.url
        /\ \A k \in 1..Len(rcat.components) :
              (/\ rcat.components[k].key = "archive"
               /\ rcat.components[k].data.url # res.url
               /\ rcat.components[k].data.debug_symbols = res.url)
                  => (res.sha256 = "null" \/ res.sha256 # rcat.components[k].data.sha256)

\* The first row a lookup of the request returns has a URL and no checksum.
MatchHasUrlButNoChecksum ==
    LET value == IF req.component = "archive-debug" THEN "debug_symbols" ELSE "url"
        f == [version |-> req.version, target |-> req.target, arch |-> req.arch,
              edition |-> req.edition,
              component |-> IF req.component = "archive-debug" THEN "archive"
                            ELSE req.component]
        matching == iter_available(rcat, f)
    IN  /\ matching # <<>>
        /\ matching[1].data_json[value] # "none"
        /\ matching[1].data_json.sha256 \in {"none", "null"}

\* C18: resolving a published version whose matching component has a URL and
\* no checksum succeeds with (url, absent checksum), and the download goes on
\* without a checksum verification.
C18_MissingChecksumResolves ==
    (MatchHasUrlButNoChecksum /\ res.pc # "start") =>
        /\ res.pc \in {"resolved", "downloading"}
        /\ res.url # "none"
        /\ res.pc = "downloading" => ~res.verifies

(***************************************************************************)
(* The download loop of _dl_component: retrier = DownloadRetrier(retries)  *)
(* and the while loop around download_file, the checksum test and          *)
(* _expand_archive.  One pass of the loop is one step, its except handler  *)
(* and the retrier's sleep included.  The resolved URL has one cache entry *)
(* (its row of mdl_http_downloads and its file under <cache>/files) and    *)
(* one remote file; between passes the remote file may change and the      *)
(* cache directory may be cleared, and the program may be run again on the *)
(* same cache directory.                                                   *)
(***************************************************************************)
\* The largest --retries of a modelled loop.
MaxLoopRetries == 1

\* hashlib.sha256 of a file content, as a hex digest.
hexdigest(content) == <<"sha256", content>>

\* sha256 of the catalog for the component, or None.
None == <<"None">>
KnownChecksums == {hexdigest(body) : body \in Bodies}

\* PurePosixPath(url).name keeps the suffix of the URL.
ArchiveSuffixes == {".tgz", ".zip", ".msi"}

\* What the network does with one request: it serves the resource (a 304 or
\* a full response), fails (an HTTP error, a transport error), sends a full
\* response without Content-Length, or ends the body early.
Answers == {"serve", "fail", "no_length", "short"}

\* The responses to one request for a resource of content body: the answer,
\* the ETag and Last-Modified headers of a full response (either may be
\* missing), and whether the expansion that follows meets an I/O fault.
Responses(body) ==
    {r \in [answer : Answers, etag : {"none", body}, modtime : {"none", body},
            fault : BOOLEAN] :
        r.answer # "serve" => (r.etag = body /\ r.modtime = body /\ ~r.fault)}

\* Cache.download_file as one call: the result and what it leaves in the
\* table and at dest.
download_file(st, answer, got_etag, got_modtime) ==
    LET dest_exists == st.file # "absent"
        hdr == request_headers(st.row, dest_exists)
        got == [row |-> TRUE, etag |-> got_etag, last_modified |-> got_modtime]
    IN  IF answer = "fail"
        THEN [result |-> "error", row |-> st.row, file |-> st.file]
        ELSE IF server_not_modified(hdr, st.remote)
        THEN [result |-> on_not_modified(dest_exists), row |-> st.row, file |-> st.file]
        ELSE IF answer = "no_length"
        THEN [result |-> "error", row |-> st.row, file |-> st.file]
        ELSE IF answer = "short"
        THEN [result |-> "error", row |-> row_after_size_check(FALSE, st.row, got),
              file |-> "partial"]
        ELSE [result |-> "changed", row |-> row_after_size_check(TRUE, st.row, got),
              file |-> st.remote]

\* _check_shasum256(filename, shasum)
check_shasum256(content, shasum) == shasum = hexdigest(content)

\* if sha256 is not None and not _check_shasum256(cached, sha256): raise
\* ValueError: the outcome of the test for the file download_file returned.
verification(content, sha256) ==
    IF sha256 = None THEN "skipped"
    ELSE IF check_shasum256(content, sha256) THEN "pass"
    ELSE "fail"

\* The raise of the checksum test comes before the call of _expand_archive.
expands_whatever(verified) == TRUE

expands_after(verified) == verified # "fail"

\* _expand_archive(cached, out_dir, ...): the suffix dispatch, then the
\* members.  A truncated file is not a readable archive; reading or writing
\* a member may fail part-way (fault).  written counts the members written
\* under out_dir.
expand_archive(suffix, content, fault) ==
    IF suffix \notin {".zip", ".tgz"}
    THEN [failure |-> "unknown_extension", written |-> 0]
    ELSE IF content = "partial"
    THEN [failure |-> "extract_error", written |-> 0]
    ELSE IF fault
    THEN [failure |-> "extract_error", written |-> 1]
    ELSE [failure |-> "none", written |-> 2]

NoPass ==
    [result |-> "", content |-> "absent", validated |-> FALSE, verified |-> "",
     expanded |-> FALSE, written |-> 0, failure |-> "", retried |-> FALSE,
     stable |-> TRUE, kept |-> TRUE]

\* What the loop's next pass is compared with: the pass before it.
NoPrevPass == [verified |-> "", content |-> "absent"]
before(rec) == [verified |-> rec.verified, content |-> rec.content]

InitLoop ==
    /\ store \in [remote : Bodies, row : {NoRow}, file : {"absent"}]
    /\ dlc \in [pc : {"loop"}, sha256 : {None} \cup KnownChecksums,
                suffix : ArchiveSuffixes, last : {NoPass}, prev : {NoPrevPass},
                stable : {TRUE}, kept : {TRUE}]
    /\ retries \in 0..MaxLoopRetries
    /\ attempt = 0
    /\ slept = <<>>
    /\ returned = <<>>
    /\ IdleVersion
    /\ IdleRun
    /\ IdleCache
    /\ IdleCatalog
    /\ IdlePattern
    /\ IdleExtract
    /\ IdleResolve
    /\ IdleStore

\* One pass of the try block, as far as it gets.
pass_of(st, sha256, suffix, answer, got_etag, got_modtime, fault) ==
    LET d == download_file(st, answer, got_etag, got_modtime)
        returns == d.result # "error"
        verified == IF returns THEN verification(d.file, sha256) ELSE "not_reached"
        expanded == returns /\ expands_after(verified)
        x == IF expanded
             THEN expand_archive(suffix, d.file, fault)
             ELSE [failure |-> "none", written |-> 0]
    IN  [result |-> d.result, row |-> d.row, content |-> d.file,
         validated |-> HasValidator(st.row),
         verified |-> verified, expanded |-> expanded, written |-> x.written,
         failure |-> IF ~returns THEN "transfer"
                     ELSE IF verified = "fail" THEN "shasum"
                     ELSE x.failure]

\* One pass of "while True": the try block and, when it raised, the handler
\* "except Exception: if not retrier.retry(): raise".
LoopPass ==
    /\ dlc.pc = "loop"
    /\ \E r \in Responses(store.remote) :
         LET p == pass_of(store, dlc.sha256, dlc.suffix, r.answer, r.etag, r.modtime, r.fault)
             rec == [result |-> p.result, content |-> p.content,
                     validated |-> p.validated, verified |-> p.verified,
                     expanded |-> p.expanded, written |-> p.written,
                     failure |-> p.failure, retried |-> FALSE,
                     stable |-> dlc.stable, kept |-> dlc.kept]
         IN  /\ store' = [store EXCEPT !.row = p.row, !.file = p.content]
             /\ IF p.failure = "none"
                THEN /\ dlc' = [dlc EXCEPT !.pc = "returned", !.last = rec,
                                           !.prev = before(dlc.last),
                                           !.stable = TRUE, !.kept = TRUE]
                     /\ UNCHANGED vretrier
                ELSE /\ retry
                     /\ dlc' = [dlc EXCEPT
                                  !.pc = IF loop_continues(Last(returned'))
                                         THEN "loop" ELSE "raised",
                                  !.last = [rec EXCEPT !.retried = Last(returned')],
                                  !.prev = before(dlc.last),
                                  !.stable = TRUE, !.kept = TRUE]
    /\ UNCHANGED others_loop

\* The remote file gets another content between two passes.
LoopRemoteChange ==
    /\ \E body \in Bodies :
         /\ body # store.remote
         /\ store' = [store EXCEPT !.remote = body]
    /\ dlc' = [dlc EXCEPT !.stable = FALSE]
    /\ UNCHANGED vretrier
    /\ UNCHANGED others_loop

\* The cache directory is cleared: the cached file, or the file and the
\* database.
LoopCacheCleared ==
    /\ store.file # "absent"
    /\ \E all \in BOOLEAN :
         store' = [store EXCEPT !.file = "absent",
                                !.row = IF all THEN NoRow ELSE @]
    /\ dlc' = [dlc EXCEPT !.kept = FALSE]
    /\ UNCHANGED vretrier
    /\ UNCHANGED others_loop

\* The program is run again for the same component on the same cache
\* directory: a new DownloadRetrier, a new loop.
LoopRunAgain ==
    /\ dlc.pc \in {"returned", "raised"}
    /\ DownloadRetrier_init(retries)
    /\ dlc' = [dlc EXCEPT !.pc = "loop"]
    /\ UNCHANGED store
    /\ UNCHANGED others_loop

NextLoop ==
    \/ LoopPass
    \/ LoopRemoteChange
    \/ LoopCacheCleared
    \/ LoopRunAgain

SpecLoop == InitLoop /\ [][NextLoop]_vars

\* The pass just made follows a pass whose checksum test failed, download_file
\* returned in it, and since the pass before the remote file did not change
\* and the cache directory was not touched.
PassAfterMismatch ==
    /\ dlc.prev.verified = "fail"
    /\ dlc.last.result \in {"changed", "unchanged"}
    /\ dlc.last.stable /\ dlc.last.kept

\* C22 as amended: a file that failed the checksum test stays in the cache;
\* a later pass or run on the same cache directory with the remote unchanged
\* gets the same bytes and fails the test again.  It revalidates as
\* changed=false and reuses the cached file when the row stored for the URL
\* holds an ETag or a Last-Modified; when the server sent neither it
\* downloads the file again (changed=true).
C22_MismatchPersists ==
    /\ (dlc.last.verified = "fail" /\ dlc.kept) =>
          (store.file = dlc.last.content /\ store.file # "absent")
    /\ PassAfterMismatch =>
          /\ dlc.last.content = dlc.prev.content
          /\ dlc.last.verified = "fail"
          /\ dlc.last.result = (IF dlc.last.validated THEN "unchanged" ELSE "changed")

C22_Witness ==
    /\ PassAfterMismatch /\ dlc.last.validated
    /\ dlc.last.result = "unchanged" /\ dlc.last.verified = "fail"
    /\ dlc.last.content \in Bodies /\ dlc.last.content = dlc.prev.content
    /\ dlc.pc = "raised" /\ Len(slept) = retries /\ retries > 0

\* C22 as stated: the later pass or run always revalidates as changed=false,
\* reuses the same file and fails the checksum test again.
C22_MismatchRevalidatesUnchanged ==
    PassAfterMismatch =>
        /\ dlc.last.result = "unchanged"
        /\ dlc.last.content = dlc.prev.content
        /\ dlc.last.verified = "fail"

\* C23: only transfer problems (a failed request, a size mismatch, a
\* checksum mismatch) are retried; a pass that failed with an unknown archive
\* extension or an extraction error ends the loop at once: the exception
\* propagates, no retry is consumed and nothing is slept.
C23_OnlyTransferRetried ==
    dlc.last.failure \in {"unknown_extension", "extract_error"} =>
        (dlc.pc = "raised" /\ ~dlc.last.retried)

(***************************************************************************)
(* The cache database file across runs: table mdl_http_downloads and the   *)
(* catalog tables.  isolation_level=None makes every statement outside     *)
(* CacheDB.transaction() commit by itself; refresh_full_json runs its      *)
(* download_file and the import inside one transaction.  Each handler is   *)
(* one step.  The catalog is written as the manifest content it was        *)
(* imported from.                                                          *)
(***************************************************************************)
\* The URLs of artifacts and the URL of the manifest.
ArtifactUrls == {"u1"}
default_source == "u2"
StoreUrls == ArtifactUrls \cup {default_source}

NoTable == <<>>
NoStore == [http |-> NoTable, catalog |-> "none"]

\* SELECT etag, last_modified FROM mdl_http_downloads WHERE url=:url, then
\* next(iter(info), (None, None))
select_row(table, url) ==
    IF \E i \in 1..Len(table) : table[i].url = url
    THEN LET r == table[CHOOSE i \in 1..Len(table) : table[i].url = url]
         IN  [row |-> TRUE, etag |-> r.etag, last_modified |-> r.last_modified]
    ELSE NoRow

\* An INSERT without OR REPLACE on a table without the UNIQUE constraint.
insert_row(table, url, row) ==
    Append(table, [url |-> url, etag |-> row.etag, last_modified |-> row.last_modified])

\* INSERT OR REPLACE INTO mdl_http_downloads: url is UNIQUE, the row of the
\* URL is deleted and the new one is inserted.
insert_or_replace(table, url, row) ==
    Append(SelectSeq(table, LAMBDA r : r.url # url),
           [url |-> url, etag |-> row.etag, last_modified |-> row.last_modified])

\* CREATE TABLE mdl_http_downloads without IF NOT EXISTS, after a drop.
create_table(table) == NoTable

\* CREATE TABLE IF NOT EXISTS mdl_http_downloads
create_table_if_not_exists(table) == table

\* The cache entry of a URL as download_file sees it.
entry(dbs, w, url) ==
    [remote |-> w.remote[url], row |-> select_row(dbs.http, url),
     file |-> w.files[dest_of(url)]]

\* The statements of download_file on the database: the INSERT OR REPLACE
\* is reached only by a call that returns changed=true.
after_download(dbs, url, d) ==
    IF d.result = "changed"
    THEN [dbs EXCEPT !.http = insert_or_replace(@, url, d.row)]
    ELSE dbs

\* DROP TABLE IF EXISTS of the three catalog tables, CREATE TABLE and the
\* inserts: the catalog of the manifest file.
import_json_file(dbs, content) == [dbs EXCEPT !.catalog = content]

InitStore ==
    /\ sqldb = [committed |-> NoStore, seen |-> {}, last |-> "none"]
    /\ world \in [remote : [StoreUrls -> Bodies],
                  files : [{dest_of(u) : u \in StoreUrls} -> {"absent"}]]
    /\ IdleVersion
    /\ IdleRetrier
    /\ IdleRun
    /\ IdleCache
    /\ IdleCatalog
    /\ IdlePattern
    /\ IdleExtract
    /\ IdleResolve
    /\ IdleLoop

urls_of(table) == {table[i].url : i \in 1..Len(table)}

Committed(dbs, op) ==
    sqldb' = [committed |-> dbs, seen |-> sqldb.seen \cup urls_of(dbs.http), last |-> op]

\* Cache.open_in: CacheDB.open on the database file of the cache directory.
StoreOpen ==
    /\ Committed([sqldb.committed EXCEPT !.http = create_table_if_not_exists(@)], "open")
    /\ sqldb.last # "open"
    /\ UNCHANGED world
    /\ UNCHANGED others_store

\* cache.download_file(dl_url) of _dl_component: no transaction is open, the
\* INSERT OR REPLACE commits by itself.
StoreFetch ==
    /\ \E url \in ArtifactUrls :
         \E r \in {x \in Responses(world.remote[url]) : ~x.fault} :
           LET d == download_file(entry(sqldb.committed, world, url),
                                  r.answer, r.etag, r.modtime)
           IN  /\ Committed(after_download(sqldb.committed, url, d), "fetch")
               /\ world' = [world EXCEPT !.files[dest_of(url)] = d.file]
    /\ UNCHANGED others_store

\* Cache.refresh_full_json: inside one transaction the download_file of the
\* manifest and, when it changed, import_json_file.  An exception of either
\* rolls the transaction back; the manifest may be one the import raises on.
StoreRefresh ==
    /\ \E r \in {x \in Responses(world.remote[default_source]) : ~x.fault},
          import_ok \in BOOLEAN :
         LET d == download_file(entry(sqldb.committed, world, default_source),
                                r.answer, r.etag, r.modtime)
             working1 == after_download(sqldb.committed, default_source, d)
             working2 == IF d.result = "changed"
                         THEN import_json_file(working1, d.file)
                         ELSE working1
             ok == d.result = "unchanged" \/ (d.result = "changed" /\ import_ok)
         IN  /\ Committed(transaction_exit(ok, sqldb.committed, working2), "refresh")
             /\ world' = [world EXCEPT !.files[dest_of(default_source)] = d.file]
    /\ UNCHANGED others_store

\* A remote file gets another content.
StoreRemoteChange ==
    /\ \E url \in StoreUrls, body \in Bodies :
         /\ body # world.remote[url]
         /\ world' = [world EXCEPT !.remote[url] = body]
    /\ UNCHANGED sqldb
    /\ UNCHANGED others_store

NextStore ==
    \/ StoreOpen
    \/ StoreFetch
    \/ StoreRefresh
    \/ StoreRemoteChange

SpecStore == InitStore /\ [][NextStore]_vars

(***************************************************************************)
(* Cache.refresh_full_json across runs whose MONGODB_DOWNLOAD_SOURCE may   *)
(* differ: every run reads the variable and refreshes from that URL on the *)
(* same cache directory.                                                   *)
(***************************************************************************)
\* os.environ.get("MONGODB_DOWNLOAD_SOURCE", default_source): the default
\* and another manifest URL.
SourceUrls == {default_source, "u3"}

\* refresh_full_json for one download_source: the database after the
\* transaction, the file left at dest, and whether the call returned.
refresh_full_json(dbs, w, download_source, r, import_ok) ==
    LET d == download_file(entry(dbs, w, download_source), r.answer, r.etag, r.modtime)
        working1 == after_download(dbs, download_source, d)
        working2 == IF d.result = "changed"
                    THEN import_json_file(working1, d.file)
                    ELSE working1
        ok == d.result = "unchanged" \/ (d.result = "changed" /\ import_ok)
    IN  [db |-> transaction_exit(ok, dbs, working2), file |-> d.file,
         returned |-> ok, changed |-> d.result = "changed"]

InitSource ==
    /\ sqldb = [committed |-> NoStore, source |-> "", status |-> "none",
                changed |-> FALSE, served |-> "none"]
    /\ world \in [remote : [SourceUrls -> Bodies],
                  files : [{dest_of(u) : u \in SourceUrls} -> {"absent"}]]
    /\ IdleVersion
    /\ IdleRetrier
    /\ IdleRun
    /\ IdleCache
    /\ IdleCatalog
    /\ IdlePattern
    /\ IdleExtract
    /\ IdleResolve
    /\ IdleLoop

\* One run's cache.refresh_full_json() with the source of its environment;
\* served is the content the source had when it answered.
SourceRefresh ==
    /\ \E download_source \in SourceUrls :
         \E r \in {x \in Responses(world.remote[download_source]) : ~x.fault},
            import_ok \in BOOLEAN :
           LET out == refresh_full_json(sqldb.committed, world, download_source,
                                        r, import_ok)
           IN  /\ sqldb' = [committed |-> out.db, source |-> download_source,
                            status |-> IF out.returned THEN "returned" ELSE "raised",
                            changed |-> out.changed,
                            served |-> world.remote[download_source]]
               /\ world' = [world EXCEPT !.files[dest_of(download_source)] = out.file]
    /\ UNCHANGED others_store

\* The manifest at a source gets another content.
SourceRemoteChange ==
    /\ \E url \in SourceUrls, body \in Bodies :
         /\ body # world.remote[url]
         /\ world' = [world EXCEPT !.remote[url] = body]
    /\ UNCHANGED sqldb
    /\ UNCHANGED others_store

NextSource ==
    \/ SourceRefresh
    \/ SourceRemoteChange

SpecSource == InitSource /\ [][NextSource]_vars

(***************************************************************************)
(* Cache.download_file for two URLs with the same last segment whose       *)
(* sha256(url)[:4] are the same: dest is one path for both.                *)
(***************************************************************************)
SharedUrls == {u \in DOMAIN DestTable : dest_of(u) = "p1"}

\* What the cache holds for every URL: its row and the file at its dest.
held(dbs, w) ==
    [v \in SharedUrls |->
        [row |-> select_row(dbs.http, v), file |-> w.files[dest_of(v)]]]

InitShared ==
    /\ sqldb = [committed |-> NoStore, url |-> "", result |-> "none",
                prior |-> held(NoStore, [files |-> [p1 |-> "absent"]])]
    /\ world \in [remote : [SharedUrls -> Bodies],
                  files : [{dest_of(u) : u \in SharedUrls} -> {"absent"}]]
    /\ IdleVersion
    /\ IdleRetrier
    /\ IdleRun
    /\ IdleCache
    /\ IdleCatalog
    /\ IdlePattern
    /\ IdleExtract
    /\ IdleResolve
    /\ IdleLoop

\* One cache.download_file(url); prior is what the cache held for every URL
\* when the call began.
SharedFetch ==
    /\ \E url \in SharedUrls :
         \E r \in {x \in Responses(world.remote[url]) : ~x.fault} :
           LET d == download_file(entry(sqldb.committed, world, url),
                                  r.answer, r.etag, r.modtime)
           IN  /\ sqldb' = [committed |-> after_download(sqldb.committed, url, d),
                            url |-> url, result |-> d.result,
                            prior |-> held(sqldb.committed, world)]
               /\ world' = [world EXCEPT !.files[dest_of(url)] = d.file]
    /\ UNCHANGED others_store

\* A remote file gets another content.
SharedRemoteChange ==
    /\ \E url \in SharedUrls, body \in Bodies :
         /\ body # world.remote[url]
         /\ world' = [world EXCEPT !.remote[url] = body]
    /\ UNCHANGED sqldb
    /\ UNCHANGED others_store

NextShared ==
    \/ SharedFetch
    \/ SharedRemoteChange

SpecShared == InitShared /\ [][NextShared]_vars

\* C35: download_file(u) leaves the cached file and the stored validators of
\* every other URL that the cache holds as they were when the call began,
\* also for a URL whose dest is the dest of u.
C35_OtherUrlsUntouched ==
    sqldb.url # "" =>
        \A v \in SharedUrls \ {sqldb.url} :
            sqldb.prior[v].row.row =>
                /\ select_row(sqldb.committed.http, v) = sqldb.prior[v].row
                /\ world.files[dest_of(v)] = sqldb.prior[v].file

\* C31: after every return of refresh_full_json the catalog is the content
\* of the manifest of the configured source, as fetched or as revalidated by
\* this refresh, whatever refreshes came before: failed ones, and ones from
\* another source.
C31_CatalogOfConfiguredSource ==
    sqldb.status = "returned" => sqldb.committed.catalog = sqldb.served

\* C24: after any sequence of fetches, refreshes and reopenings the committed
\* table mdl_http_downloads holds at most one row per URL, and every URL
\* that had a committed row still has one: a catalog rebuild leaves the
\* table alone, a full fetch replaces the row of its URL.
C24_OneEntryNeverRemoved ==
    LET table == sqldb.committed.http
    IN  /\ \A i \in 1..Len(table) : \A j \in 1..Len(table) :
              table[i].url = table[j].url => i = j
        /\ sqldb.seen \subseteq urls_of(table)

C24_Witness ==
    /\ urls_of(sqldb.committed.http) = StoreUrls
    /\ sqldb.committed.catalog = "B"
    /\ select_row(sqldb.committed.http, "u1").etag = "B"
    /\ select_row(sqldb.committed.http, default_source).etag = "B"
    /\ world.remote[default_source] = "A"
    /\ world.files[dest_of(default_source)] = "A"
    /\ sqldb.last = "refresh"

\* C26: in every pass of the loop with a known checksum, _expand_archive is
\* called only after the cached file passed the SHA-256 test: a pass whose
\* test failed expands nothing and writes no member to the destination.
C26_VerifiedBeforeExpanded ==
    /\ dlc.last.verified = "fail" =>
          /\ ~dlc.last.expanded /\ dlc.last.written = 0
          /\ dlc.last.failure = "shasum"
    /\ (dlc.last.expanded /\ dlc.sha256 # None) =>
          (dlc.last.verified = "pass" /\ check_shasum256(dlc.last.content, dlc.sha256))
    /\ dlc.last.written > 0 => dlc.last.expanded

C26_Witness ==
    /\ dlc.sha256 = hexdigest("A") /\ dlc.suffix = ".tgz"
    /\ dlc.last.result = "changed" /\ dlc.last.content = "B"
    /\ dlc.last.verified = "fail" /\ ~dlc.last.expanded /\ dlc.last.written = 0
    /\ dlc.last.retried

====
